---- MODULE Spec2Model ----
(***************************************************************************)
(* A model of the arlulacore package (src/arlulacore): parse_rfc3339 and   *)
(* calculate_price of util.py, the response models, the request objects    *)
(* and the API classes.                                                    *)
(*                                                                         *)
(* A Python str that the code reads character by character is modelled as  *)
(* a sequence of one-character strings.  Python values are records tagged  *)
(* by a "kind" field, so that None, a datetime and a raised exception can  *)
(* be compared with one another.                                           *)
(*                                                                         *)
(* Each part of the package has its own variables and its own              *)
(* specification; the variables of the other parts stay idle in it.        *)
(***************************************************************************)
EXTENDS Integers, Sequences, FiniteSets, TLC

\* parse_rfc3339 (Spec)
VARIABLES dt_str,    \* the argument of the first call of parse_rfc3339
          pc,        \* "ready" -> "called" -> "derived" -> "reparsed"
          outcome,   \* what the first call gave its caller
          form,      \* how text was derived from the first call
          text,      \* a second string derived from the first call
          outcome2   \* what the call on text gave its caller

parserVars == <<dt_str, pc, outcome, form, text, outcome2>>

\* the response models (SpecModels)
VARIABLES model_cls,     \* the class that is called
          model_data,    \* the payload given to it
          model_out      \* what the call gave its caller

modelsVars == <<model_cls, model_data, model_out>>

\* concurrent calls of parse_rfc3339 (SpecThreads)
VARIABLES thr,           \* the frame of each thread: its argument, its position and its locals
          heap           \* the match objects that re.search has allocated

threadsVars == <<thr, heap>>

\* calculate_price (SpecPrice)
VARIABLES price_args,    \* the arguments of the call
          price_out      \* what the call gave its caller

priceVars == <<price_args, price_out>>

\* ArchiveOrderRequest objects (SpecOrderRequest)
VARIABLES lists,         \* the list objects of the heap; lists[1] and lists[2] are the defaults of __init__
          orders,        \* the ArchiveOrderRequest objects, in the order of their construction
          order_log,     \* what each request was constructed with and was given since
          order_dict     \* the result of the latest dict() call

orderreqVars == <<lists, orders, order_log, order_dict>>

\* a request object (SpecRequests)
VARIABLES req,           \* the request object: its class and its attributes
          req_given,     \* the arguments its constructor was given
          req_out        \* the result of the latest dict(), __dict__() or _to_interval() call

requestsVars == <<req, req_given, req_out>>

\* the API classes: one call of a request method and the responses the
\* server gives to the requests it issues
VARIABLES api_call,      \* the API class and the method called
          api_responses, \* the responses of the server, in the order of the requests
          api_out        \* NotCalled, or what the call returned or raised

apiVars == <<api_call, api_responses, api_out>>

\* OrdersAPI.download_resource_as_file: one call, its response, the file it
\* writes and what it does to the progress generator and to stdout
VARIABLES dl_args,       \* filepath, directory, suppress, and whether a progress_generator is given
          dl_response,   \* status_code, headers, history and body of the response
          dl_pc,         \* "start", "content", "chunks", "finish" or "done"
          dl_local,      \* the local variables filepath, total, downloaded and the body still to read
          dl_file,       \* None, or the path, content, position and state of the file f
          dl_log,        \* next and send on the generator, the request, the writes to f and to stdout
          dl_out         \* NotCalled, or what the call returned or raised

downloadVars == <<dl_args, dl_response, dl_pc, dl_local, dl_file, dl_log, dl_out>>

\* SearchResult.calculate_price
VARIABLES sr_self,       \* the SearchResult: its bundles and its licenses
          sr_args,       \* license_href and bundle_key
          sr_out         \* NotCalled, or what the call returned or raised

resultVars == <<sr_self, sr_args, sr_out>>

\* Band
VARIABLES band_self,     \* the Band: its min and its max, in nanometres
          band_out       \* NotCalled, or the method called and what it returned

bandVars == <<band_self, band_out>>

\* SearchRequest.valid and TaskingSearchRequest.valid
VARIABLES v_self,        \* the fields of the request that valid() reads
          v_out          \* NotCalled, or the class whose valid() was called and what it returned

validVars == <<v_self, v_out>>

\* the builder methods of ArchiveOrderRequest and TaskingOrderRequest
VARIABLES b_self,        \* None, or the attributes of the request that was constructed
          b_ret,         \* NotCalled, or what the latest call of the chain returned or raised
          b_last,        \* the name of the method called last
          b_calls        \* the number of builder calls of the chain

builderVars == <<b_self, b_ret, b_last, b_calls>>

\* add_id, add_query and add_keyword of the collection requests
VARIABLES ad_self,       \* the request object
          ad_given,      \* the ids, queries and keywords it was constructed with
          ad_out,        \* NotCalled, or the latest call and what it returned or raised
          ad_calls       \* the number of calls so far

adderVars == <<ad_self, ad_given, ad_out, ad_calls>>

vars == <<parserVars, modelsVars, threadsVars, priceVars, orderreqVars, requestsVars, apiVars, downloadVars, resultVars, bandVars, validVars, builderVars, adderVars>>

\* the variables of every part but one are idle
IdleExcept(part) ==
    /\ IF part = "parser" THEN TRUE
       ELSE /\ dt_str = <<>> /\ pc = "idle" /\ outcome = "idle"
            /\ form = "idle" /\ text = <<>> /\ outcome2 = "idle"
    /\ IF part = "models" THEN TRUE
       ELSE model_cls = "idle" /\ model_data = <<>> /\ model_out = "idle"
    /\ IF part = "threads" THEN TRUE
       ELSE thr = <<>> /\ heap = <<>>
    /\ IF part = "price" THEN TRUE
       ELSE price_args = <<>> /\ price_out = "idle"
    /\ IF part = "orderreq" THEN TRUE
       ELSE lists = <<>> /\ orders = <<>> /\ order_log = <<>> /\ order_dict = "idle"
    /\ IF part = "requests" THEN TRUE
       ELSE req = <<>> /\ req_given = <<>> /\ req_out = "idle"
    /\ IF part = "api" THEN TRUE
       ELSE api_call = "idle" /\ api_responses = <<>> /\ api_out = "idle"
    /\ IF part = "download" THEN TRUE
       ELSE dl_args = "idle" /\ dl_response = "idle" /\ dl_pc = "idle" /\ dl_local = "idle" /\ dl_file = "idle" /\ dl_log = <<>> /\ dl_out = "idle"
    /\ IF part = "result" THEN TRUE
       ELSE sr_self = "idle" /\ sr_args = "idle" /\ sr_out = "idle"
    /\ IF part = "band" THEN TRUE
       ELSE band_self = "idle" /\ band_out = "idle"
    /\ IF part = "valid" THEN TRUE
       ELSE v_self = "idle" /\ v_out = "idle"
    /\ IF part = "builder" THEN TRUE
       ELSE b_self = "idle" /\ b_ret = "idle" /\ b_last = "idle" /\ b_calls = 0
    /\ IF part = "adder" THEN TRUE
       ELSE ad_self = "idle" /\ ad_given = "idle" /\ ad_out = "idle" /\ ad_calls = 0

\* a step of one part leaves the variables of the others alone
UnchangedExcept(part) ==
    /\ IF part = "parser" THEN TRUE ELSE UNCHANGED parserVars
    /\ IF part = "models" THEN TRUE ELSE UNCHANGED modelsVars
    /\ IF part = "threads" THEN TRUE ELSE UNCHANGED threadsVars
    /\ IF part = "price" THEN TRUE ELSE UNCHANGED priceVars
    /\ IF part = "orderreq" THEN TRUE ELSE UNCHANGED orderreqVars
    /\ IF part = "requests" THEN TRUE ELSE UNCHANGED requestsVars
    /\ IF part = "api" THEN TRUE ELSE UNCHANGED apiVars
    /\ IF part = "download" THEN TRUE ELSE UNCHANGED downloadVars
    /\ IF part = "result" THEN TRUE ELSE UNCHANGED resultVars
    /\ IF part = "band" THEN TRUE ELSE UNCHANGED bandVars
    /\ IF part = "valid" THEN TRUE ELSE UNCHANGED validVars
    /\ IF part = "builder" THEN TRUE ELSE UNCHANGED builderVars
    /\ IF part = "adder" THEN TRUE ELSE UNCHANGED adderVars

(***************************************************************************)
(* Python values                                                           *)
(***************************************************************************)
None == [kind |-> "None"]

Return(v) == [kind |-> "return", value |-> v]

Raise(e) == [kind |-> "raise", exc |-> e]

NotCalled == [kind |-> "notcalled"]

\* the value of a regex group that took no part in the match
NoGroup == <<"None">>

(***************************************************************************)
(* Characters and int()                                                    *)
(***************************************************************************)
DigitChars == <<"0", "1", "2", "3", "4", "5", "6", "7", "8", "9">>

\* \d of the pattern
IsDigit(c) == \E i \in 1..Len(DigitChars) : DigitChars[i] = c

DigitVal(c) == (CHOOSE i \in 1..Len(DigitChars) : DigitChars[i] = c) - 1

\* int(s) for a non-empty string of digits
RECURSIVE int(_)
int(ds) ==
    IF Len(ds) = 0 THEN 0
    ELSE int(SubSeq(ds, 1, Len(ds) - 1)) * 10 + DigitVal(ds[Len(ds)])

RECURSIVE Pow10(_)
Pow10(n) == IF n <= 0 THEN 1 ELSE 10 * Pow10(n - 1)

(***************************************************************************)
(* __date_rx__ and re.search                                               *)
(***************************************************************************)
\* a pattern whose separator class is [T]
SepClassUpper == {"T"}

\* [Tt]
SepClass == {"T", "t"}

\* [zZ]
ZuluClass == {"z", "Z"}

\* a pattern whose sign class is [-]
SignClassMinus == {"-"}

\* [+-]
SignClass == {"+", "-"}

AllDigits(s, a, b) == \A i \in a..b : i <= Len(s) /\ IsDigit(s[i])

\* the greedy \d+ starting at index i: the index of the last digit of the run
RECURSIVE DigitRunEnd(_, _)
DigitRunEnd(s, i) ==
    IF i <= Len(s) /\ IsDigit(s[i]) THEN DigitRunEnd(s, i + 1) ELSE i - 1

\* $ without re.MULTILINE, with i the index of the first unconsumed character:
\* it matches at the end of the string and just before a newline that ends it
EndAnchor(s, i) ==
    \/ i = Len(s) + 1
    \/ i = Len(s) /\ s[i] = "\n"

\* re.search(__date_rx__, s): None, or the groups of the match.  The pattern
\* starts with ^ and is compiled without re.MULTILINE, so that the only
\* match position re.search can succeed at is the start of the string.
\* The offset group encloses the sign, hour and minute groups and closes
\* last, so that lastindex is its index, 8, in every match.
date_rx_search(s) ==
    LET fixed ==
            /\ Len(s) >= 19
            /\ AllDigits(s, 1, 4) /\ s[5] = "-"
            /\ AllDigits(s, 6, 7) /\ s[8] = "-"
            /\ AllDigits(s, 9, 10) /\ s[11] \in SepClass
            /\ AllDigits(s, 12, 13) /\ s[14] = ":"
            /\ AllDigits(s, 15, 16) /\ s[17] = ":"
            /\ AllDigits(s, 18, 19)
        hasFrac == Len(s) >= 21 /\ s[20] = "." /\ IsDigit(s[21])
        fracEnd == IF hasFrac THEN DigitRunEnd(s, 21) ELSE 19
        o == fracEnd + 1
        zulu == o <= Len(s) /\ s[o] \in ZuluClass
        signed ==
            /\ o + 5 <= Len(s)
            /\ s[o] \in SignClass
            /\ AllDigits(s, o + 1, o + 2) /\ s[o + 3] = ":"
            /\ AllDigits(s, o + 4, o + 5)
        oEnd == IF zulu THEN o ELSE o + 5
    IN  IF fixed /\ (zulu \/ signed) /\ EndAnchor(s, oEnd + 1)
        THEN [kind          |-> "match",
              year          |-> SubSeq(s, 1, 4),
              month         |-> SubSeq(s, 6, 7),
              day           |-> SubSeq(s, 9, 10),
              hour          |-> SubSeq(s, 12, 13),
              minute        |-> SubSeq(s, 15, 16),
              second        |-> SubSeq(s, 18, 19),
              sec_frac      |-> IF hasFrac THEN SubSeq(s, 21, fracEnd) ELSE NoGroup,
              offset        |-> SubSeq(s, o, oEnd),
              offset_sign   |-> IF zulu THEN NoGroup ELSE SubSeq(s, o, o),
              offset_hour   |-> IF zulu THEN NoGroup ELSE SubSeq(s, o + 1, o + 2),
              offset_minute |-> IF zulu THEN NoGroup ELSE SubSeq(s, o + 4, o + 5),
              lastindex     |-> 8]
        ELSE None

(***************************************************************************)
(* datetime.timedelta, datetime.timezone and datetime.datetime, as far as  *)
(* parse_rfc3339 uses them.  A timedelta is its number of minutes.         *)
(***************************************************************************)
timedelta(hours, minutes) == hours * 60 + minutes

\* timezone(offset): ValueError unless the offset is strictly between
\* -timedelta(hours=24) and timedelta(hours=24)
timezone(offset) ==
    IF -(24 * 60) < offset /\ offset < 24 * 60
    THEN Return([kind |-> "timezone", utcoffset |-> offset])
    ELSE Raise("ValueError")

is_leap(year) == year % 4 = 0 /\ (year % 100 # 0 \/ year % 400 = 0)

days_in_month(year, month) ==
    IF month = 2 THEN (IF is_leap(year) THEN 29 ELSE 28)
    ELSE IF month \in {4, 6, 9, 11} THEN 30 ELSE 31

\* a construction that checks the day against 31 alone
datetime_day_upto_31(year, month, day, hour, minute, second, microsecond, tzinfo) ==
    IF /\ 1 <= year /\ year <= 9999
       /\ 1 <= month /\ month <= 12
       /\ 1 <= day /\ day <= 31
       /\ 0 <= hour /\ hour <= 23
       /\ 0 <= minute /\ minute <= 59
       /\ 0 <= second /\ second <= 59
       /\ 0 <= microsecond /\ microsecond <= 999999
    THEN Return([kind        |-> "datetime",
                 year        |-> year,
                 month       |-> month,
                 day         |-> day,
                 hour        |-> hour,
                 minute      |-> minute,
                 second      |-> second,
                 microsecond |-> microsecond,
                 tzinfo      |-> tzinfo])
    ELSE Raise("ValueError")

\* a construction that checks the date and not the time of day
datetime_unchecked_time(year, month, day, hour, minute, second, microsecond, tzinfo) ==
    IF /\ 1 <= year /\ year <= 9999
       /\ 1 <= month /\ month <= 12
       /\ 1 <= day /\ day <= days_in_month(year, month)
       /\ 0 <= microsecond /\ microsecond <= 999999
    THEN Return([kind        |-> "datetime",
                 year        |-> year,
                 month       |-> month,
                 day         |-> day,
                 hour        |-> hour,
                 minute      |-> minute,
                 second      |-> second,
                 microsecond |-> microsecond,
                 tzinfo      |-> tzinfo])
    ELSE Raise("ValueError")

\* datetime(year, month, day, hour, minute, second, microsecond, tzinfo):
\* ValueError unless every field is in range, the day for its month and year
datetime(year, month, day, hour, minute, second, microsecond, tzinfo) ==
    IF /\ 1 <= year /\ year <= 9999
       /\ 1 <= month /\ month <= 12
       /\ 1 <= day /\ day <= days_in_month(year, month)
       /\ 0 <= hour /\ hour <= 23
       /\ 0 <= minute /\ minute <= 59
       /\ 0 <= second /\ second <= 59
       /\ 0 <= microsecond /\ microsecond <= 999999
    THEN Return([kind        |-> "datetime",
                 year        |-> year,
                 month       |-> month,
                 day         |-> day,
                 hour        |-> hour,
                 minute      |-> minute,
                 second      |-> second,
                 microsecond |-> microsecond,
                 tzinfo      |-> tzinfo])
    ELSE Raise("ValueError")

(***************************************************************************)
(* parse_rfc3339                                                           *)
(***************************************************************************)
\* a fraction rounded to the nearest microsecond
sec_frac_micro_rounded(sec_frac) ==
    IF Len(sec_frac) > 6
    THEN (int(SubSeq(sec_frac, 1, 7)) + 5) \div 10
    ELSE int(sec_frac) * Pow10(6 - Len(sec_frac))

\* a fraction that is not scaled to microseconds
sec_frac_micro_unscaled(sec_frac) ==
    LET sec_frac_str == IF Len(sec_frac) > 6 THEN SubSeq(sec_frac, 1, 6) ELSE sec_frac
    IN  int(sec_frac_str)

\* lines 44-45: the microseconds of a sec_frac group that matched
sec_frac_micro(sec_frac) ==
    LET sec_frac_str == IF Len(sec_frac) > 6 THEN SubSeq(sec_frac, 1, 6) ELSE sec_frac
    IN  int(sec_frac_str) * Pow10(6 - Len(sec_frac_str))

\* a negative offset whose minutes keep their sign
signed_offset_hour_only(offset_sign, offset_hour, offset_minute) ==
    LET h == int(offset_hour)
        m == int(offset_minute)
    IN  IF offset_sign = <<"-">> THEN timedelta(h * (-1), m) ELSE timedelta(h, m)

\* lines 51-58: the timedelta of an offset that is not z or Z
signed_offset(offset_sign, offset_hour, offset_minute) ==
    LET h == int(offset_hour)
        m == int(offset_minute)
    IN  IF offset_sign = <<"-">> THEN timedelta(h * (-1), m * (-1)) ELSE timedelta(h, m)

\* lines 47-58: the tz of a match
match_tz(result) ==
    IF ~(result.offset = <<"z">> \/ result.offset = <<"Z">>)
    THEN timezone(signed_offset(result.offset_sign, result.offset_hour,
                                result.offset_minute))
    ELSE timezone(timedelta(0, 0))

\* lines 35-69: the body of the try statement.  result.lastindex on the None
\* of a failed search raises AttributeError.
parse_body(s) ==
    LET result == date_rx_search(s)
    IN  IF result = None THEN Raise("AttributeError")
        ELSE IF result.lastindex < 7 \/ result.lastindex > 11 THEN Return(None)
        ELSE LET sec_frac_int ==
                     IF result.sec_frac # NoGroup THEN sec_frac_micro(result.sec_frac) ELSE 0
                 tz == match_tz(result)
             IN  IF tz.kind = "raise" THEN tz
                 ELSE datetime(int(result.year), int(result.month), int(result.day),
                               int(result.hour), int(result.minute), int(result.second),
                               sec_frac_int, tz.value)

\* a handler that is "except ValueError:"
parse_rfc3339_except_value_error(s) ==
    LET body == parse_body(s)
    IN  IF body.kind = "raise" /\ body.exc = "ValueError" THEN Return(None) ELSE body

\* a handler that is "except AttributeError:"
parse_rfc3339_except_attribute_error(s) ==
    LET body == parse_body(s)
    IN  IF body.kind = "raise" /\ body.exc = "AttributeError" THEN Return(None) ELSE body

\* lines 34-71: the try statement; the bare except returns None for every
\* exception of the body
parse_rfc3339(s) ==
    LET body == parse_body(s)
    IN  IF body.kind = "raise" THEN Return(None) ELSE body

(***************************************************************************)
(* str(datetime) and datetime.isoformat(), the serialisations of the       *)
(* tests: the date, a separator, the time, the microseconds when they are  *)
(* not 0, and the UTC offset as +HH:MM or -HH:MM.                          *)
(***************************************************************************)
\* "%0<width>d" % n
RECURSIVE zfill(_, _)
zfill(n, width) ==
    IF width = 0 THEN <<>>
    ELSE zfill(n \div 10, width - 1) \o <<DigitChars[(n % 10) + 1]>>

format_offset(off) ==
    LET a == IF off < 0 THEN -off ELSE off
    IN  <<IF off < 0 THEN "-" ELSE "+">> \o zfill(a \div 60, 2) \o <<":">> \o zfill(a % 60, 2)

isoformat(dt, sep) ==
    zfill(dt.year, 4) \o <<"-">> \o zfill(dt.month, 2) \o <<"-">> \o zfill(dt.day, 2)
    \o <<sep>>
    \o zfill(dt.hour, 2) \o <<":">> \o zfill(dt.minute, 2) \o <<":">> \o zfill(dt.second, 2)
    \o (IF dt.microsecond # 0 THEN <<".">> \o zfill(dt.microsecond, 6) ELSE <<>>)
    \o format_offset(dt.tzinfo.utcoffset)

\* str(dt) is dt.isoformat(sep=' ')
datetime_str(dt) == isoformat(dt, " ")

(***************************************************************************)
(* The other spelling of a timestamp: T for t and t for T, Z for z and z   *)
(* for Z, wherever they stand.                                             *)
(***************************************************************************)
swap_letter(c, upper, lower) ==
    IF c = upper THEN lower ELSE IF c = lower THEN upper ELSE c

respell_t(s) == [i \in 1..Len(s) |-> swap_letter(s[i], "T", "t")]

respell_z(s) == [i \in 1..Len(s) |-> swap_letter(s[i], "Z", "z")]

(***************************************************************************)
(* The inputs                                                              *)
(***************************************************************************)
\* the longest fractional part drawn from FracAlphabet
MaxFracLen == 7

\* the longest run of extra characters before or after a timestamp
MaxExtra == 2

SeqsUpTo(alphabet, n) == UNION {[1..k -> alphabet] : k \in 0..n}

Date(y, m, d) == zfill(y, 4) \o <<"-">> \o zfill(m, 2) \o <<"-">> \o zfill(d, 2)

Time(h, m, sec) == zfill(h, 2) \o <<":">> \o zfill(m, 2) \o <<":">> \o zfill(sec, 2)

Offset(sign, h, m) == <<sign>> \o zfill(h, 2) \o <<":">> \o zfill(m, 2)

Frac(ds) == <<".">> \o ds

\* the timestamp of the tests; 2021-10-18T22:38:10.123456+04:45 is the longest
BaseDate == Date(2021, 10, 18)

BaseTime == Time(22, 38, 10)

TestFracs ==
    { <<"1", "2", "3">>,
      <<"1", "2", "3", "4", "5", "6">>,
      <<"1", "2", "3", "4", "5", "6", "7">>,
      <<"1", "2", "3", "4", "5", "6", "7", "8", "9">> }

FracAlphabet == {"0", "5", "9"}

ExtraChars == {" ", "\n", "x"}

\* every date and time of a few years, months, days, hours, minutes and
\* seconds, in and out of range
CalendarInputs ==
    { Date(y, m, d) \o <<"T">> \o Time(h, mi, sec) \o <<"Z">> :
        y \in {0, 1900, 2000, 2020, 2021}, m \in {0, 2, 4, 12, 13},
        d \in {0, 1, 28, 29, 30, 31, 32},
        h \in {0, 23, 24}, mi \in {0, 59, 60}, sec \in {0, 59, 60} }

\* every fractional part, "." alone included
FracInputs ==
    { BaseDate \o <<"T">> \o BaseTime \o Frac(ds) \o tz :
        ds \in SeqsUpTo(FracAlphabet, MaxFracLen) \cup TestFracs,
        tz \in {<<"Z">>, Offset("-", 4, 45)} }

\* every designator, in and out of range, malformed and missing, after
\* every separator
OffsetInputs ==
    { BaseDate \o sep \o BaseTime \o frac \o tz :
        sep \in {<<"T">>, <<"t">>, <<" ">>, <<>>},
        frac \in {<<>>, Frac(<<"5">>), Frac(<<"1", "2", "3", "4", "5", "6">>)},
        tz \in { Offset(sign, h, m) :
                   sign \in {"+", "-"}, h \in {0, 4, 23, 24, 25, 99}, m \in {0, 45, 59, 99} }
               \cup { <<"Z">>, <<"z">>, <<>>, <<"+", "0", "4", "4", "5">>,
                      <<"+", "4", ":", "4", "5">>, <<"0", "4", ":", "4", "5">> } }

\* extra characters before and after a timestamp
ExtraInputs ==
    { lead \o core \o trail :
        lead \in SeqsUpTo(ExtraChars, MaxExtra),
        trail \in SeqsUpTo(ExtraChars, MaxExtra),
        core \in { BaseDate \o <<"T">> \o BaseTime \o <<"Z">>,
                   BaseDate \o <<"t">> \o BaseTime \o <<"z">>,
                   BaseDate \o <<"T">> \o BaseTime \o Frac(<<"1", "2", "3">>) \o Offset("+", 4, 45),
                   BaseDate \o <<"T">> \o BaseTime } }

\* every truncation of a timestamp, the empty string included
TruncatedInputs ==
    LET whole == BaseDate \o <<"T">> \o BaseTime
                 \o Frac(<<"1", "2", "3", "4", "5", "6">>) \o Offset("+", 4, 45)
    IN  { SubSeq(whole, 1, n) : n \in 0..Len(whole) }

Inputs ==
    CalendarInputs \cup FracInputs \cup OffsetInputs \cup ExtraInputs \cup TruncatedInputs

(***************************************************************************)
(* The calls                                                               *)
(***************************************************************************)
Init ==
    /\ IdleExcept("parser")
    /\ dt_str \in Inputs
    /\ pc = "ready"
    /\ outcome = NotCalled
    /\ form = "none"
    /\ text = <<>>
    /\ outcome2 = NotCalled

\* parse_rfc3339(dt_str)
Call ==
    /\ pc = "ready"
    /\ outcome' = parse_rfc3339(dt_str)
    /\ pc' = "called"
    /\ UNCHANGED <<dt_str, form, text, outcome2>>
    /\ UnchangedExcept("parser")

Parsed == pc = "called" /\ outcome.kind = "return" /\ outcome.value # None

\* str(parse_rfc3339(dt_str)), as the tests serialise a timestamp
Str ==
    /\ Parsed
    /\ text' = datetime_str(outcome.value)
    /\ form' = "str"
    /\ pc' = "derived"
    /\ UNCHANGED <<dt_str, outcome, outcome2>>
    /\ UnchangedExcept("parser")

\* parse_rfc3339(dt_str).isoformat()
IsoFormat ==
    /\ Parsed
    /\ text' = isoformat(outcome.value, "T")
    /\ form' = "isoformat"
    /\ pc' = "derived"
    /\ UNCHANGED <<dt_str, outcome, outcome2>>
    /\ UnchangedExcept("parser")

\* the input of test_lower_t for that of test_correct_sec_frac
RespellT ==
    /\ pc = "called"
    /\ text' = respell_t(dt_str)
    /\ form' = "respell_t"
    /\ pc' = "derived"
    /\ UNCHANGED <<dt_str, outcome, outcome2>>
    /\ UnchangedExcept("parser")

\* the input of test_lower_z for that of test_correct_sec_frac
RespellZ ==
    /\ pc = "called"
    /\ text' = respell_z(dt_str)
    /\ form' = "respell_z"
    /\ pc' = "derived"
    /\ UNCHANGED <<dt_str, outcome, outcome2>>
    /\ UnchangedExcept("parser")

RespellTZ ==
    /\ pc = "called"
    /\ text' = respell_z(respell_t(dt_str))
    /\ form' = "respell_tz"
    /\ pc' = "derived"
    /\ UNCHANGED <<dt_str, outcome, outcome2>>
    /\ UnchangedExcept("parser")

\* parse_rfc3339(text)
Reparse ==
    /\ pc = "derived"
    /\ outcome2' = parse_rfc3339(text)
    /\ pc' = "reparsed"
    /\ UNCHANGED <<dt_str, outcome, form, text>>
    /\ UnchangedExcept("parser")

Next == Call \/ Str \/ IsoFormat \/ RespellT \/ RespellZ \/ RespellTZ \/ Reparse

Spec == Init /\ [][Next]_vars

(***************************************************************************)
(* The grammar of the specification, and what a string of the grammar      *)
(* says: YYYY-MM-DD(T|t)HH:MM:SS[.digits](Z|z|+HH:MM|-HH:MM), the whole    *)
(* string.                                                                 *)
(***************************************************************************)
Numerals == {"0", "1", "2", "3", "4", "5", "6", "7", "8", "9"}

NumeralsAt(s, a, b) == \A i \in a..b : s[i] \in Numerals

ValueOf(c) ==
    CASE c = "0" -> 0 [] c = "1" -> 1 [] c = "2" -> 2 [] c = "3" -> 3 [] c = "4" -> 4
      [] c = "5" -> 5 [] c = "6" -> 6 [] c = "7" -> 7 [] c = "8" -> 8 [] c = "9" -> 9

\* the number a string of numerals writes, most significant numeral first
RECURSIVE Written(_)
Written(ds) ==
    IF ds = <<>> THEN 0
    ELSE ValueOf(Head(ds)) * Pow10(Len(ds) - 1) + Written(Tail(ds))

InGrammar(s) ==
    \E f \in 0..Len(s), z \in {1, 6} :
        /\ Len(s) = 19 + f + z
        /\ NumeralsAt(s, 1, 4) /\ s[5] = "-" /\ NumeralsAt(s, 6, 7) /\ s[8] = "-"
        /\ NumeralsAt(s, 9, 10) /\ s[11] \in {"T", "t"}
        /\ NumeralsAt(s, 12, 13) /\ s[14] = ":" /\ NumeralsAt(s, 15, 16) /\ s[17] = ":"
        /\ NumeralsAt(s, 18, 19)
        /\ f # 1
        /\ f >= 2 => s[20] = "." /\ NumeralsAt(s, 21, 19 + f)
        /\ z = 1 => s[20 + f] \in {"Z", "z"}
        /\ z = 6 => /\ s[20 + f] \in {"+", "-"}
                    /\ NumeralsAt(s, 21 + f, 22 + f) /\ s[23 + f] = ":"
                    /\ NumeralsAt(s, 24 + f, 25 + f)

\* of a string of the grammar: whether it ends in Z or z, its fields, the
\* digits of its fraction (none when it has no fraction) and its offset in
\* minutes
IsZulu(s) == s[Len(s)] \in {"Z", "z"}

WrittenYear(s) == Written(SubSeq(s, 1, 4))

WrittenMonth(s) == Written(SubSeq(s, 6, 7))

WrittenDay(s) == Written(SubSeq(s, 9, 10))

WrittenHour(s) == Written(SubSeq(s, 12, 13))

WrittenMinute(s) == Written(SubSeq(s, 15, 16))

WrittenSecond(s) == Written(SubSeq(s, 18, 19))

WrittenFrac(s) == SubSeq(s, 21, Len(s) - (IF IsZulu(s) THEN 1 ELSE 6))

WrittenOffset(s) ==
    IF IsZulu(s) THEN 0
    ELSE LET n == Len(s)
             minutes == Written(SubSeq(s, n - 4, n - 3)) * 60 + Written(SubSeq(s, n - 1, n))
         IN  IF s[n - 5] = "-" THEN -minutes ELSE minutes

\* the days of a month of the proleptic Gregorian calendar
CalendarDays(y, m) ==
    LET leap == (y % 4 = 0 /\ y % 100 # 0) \/ y % 400 = 0
    IN  IF m = 2 /\ leap THEN 29
        ELSE <<31, 28, 31, 30, 31, 30, 31, 31, 30, 31, 30, 31>>[m]

\* every field but the day is in the range of the data model
InRangeButDay(s) ==
    /\ WrittenYear(s) >= 1
    /\ WrittenMonth(s) \in 1..12
    /\ WrittenHour(s) \in 0..23
    /\ WrittenMinute(s) \in 0..59
    /\ WrittenSecond(s) \in 0..59
    /\ -(24 * 60) < WrittenOffset(s) /\ WrittenOffset(s) < 24 * 60

Called == pc # "ready"

Failed == outcome = Return(None)

Succeeded == outcome.kind = "return" /\ outcome.value.kind = "datetime"

(***************************************************************************)
(* The claims                                                              *)
(***************************************************************************)
\* C1: parse_rfc3339 never raises: every call returns a timestamp or None,
\* whatever the string.
C1_NeverRaises ==
    /\ Called => outcome.kind = "return" /\ outcome.value.kind \in {"datetime", "None"}
    /\ pc = "reparsed" =>
           outcome2.kind = "return" /\ outcome2.value.kind \in {"datetime", "None"}

\* a call whose try body raised, and which returned None
C1_Witness == Called /\ parse_body(dt_str).kind = "raise" /\ Failed

\* C2: parse_rfc3339 succeeds only when the whole input is a string of the
\* grammar, with no character before the year or after the designator.
C2_WholeMatchOnly == Called /\ Succeeded => InGrammar(dt_str)

\* C3: every input that is not a string of the grammar returns None.
C3_NonMatchFails == Called /\ ~InGrammar(dt_str) => Failed

\* C4, as claimed: a string of the grammar whose fields are in the ranges of
\* the data model, the day in 1..31, yields a timestamp with the month and
\* day as written, whatever the month and year.
C4_DayNotValidated ==
    Called /\ InGrammar(dt_str) /\ InRangeButDay(dt_str) /\ WrittenDay(dt_str) \in 1..31
        => /\ Succeeded
           /\ outcome.value.month = WrittenMonth(dt_str)
           /\ outcome.value.day = WrittenDay(dt_str)

\* C4, amended: the day is validated against the month and year: a string of
\* the grammar whose other fields are in range yields a timestamp with the
\* month and day as written when the day is a day of that month of that
\* year, and None otherwise.
C4_DayValidated ==
    Called /\ InGrammar(dt_str) /\ InRangeButDay(dt_str)
        => IF WrittenDay(dt_str) \in 1..CalendarDays(WrittenYear(dt_str), WrittenMonth(dt_str))
           THEN /\ Succeeded
                /\ outcome.value.month = WrittenMonth(dt_str)
                /\ outcome.value.day = WrittenDay(dt_str)
           ELSE Failed

\* 30 February of a year in range, time in range, returned None
C4_Witness ==
    /\ Called /\ InGrammar(dt_str) /\ InRangeButDay(dt_str)
    /\ WrittenMonth(dt_str) = 2 /\ WrittenDay(dt_str) = 30
    /\ Failed

SixDigitFracZ(s) == InGrammar(s) /\ s[Len(s)] = "Z" /\ Len(WrittenFrac(s)) = 6

\* C5, as claimed: for a valid input with a 6-digit fraction and Z, parsing
\* the str() form of the result yields the result again.
C5_RoundTripStr ==
    pc = "reparsed" /\ form = "str" /\ SixDigitFracZ(dt_str) => outcome2 = outcome

\* C5, amended: for a valid input with a 6-digit fraction and Z, parsing the
\* isoformat() form of the result (separator T) yields the result again,
\* and parsing its str() form (separator space) yields None.
C5_RoundTripIso ==
    pc = "reparsed" /\ SixDigitFracZ(dt_str)
        => /\ form = "isoformat" => outcome2 = outcome
           /\ form = "str" => outcome2 = Return(None)

\* the isoformat() form of a timestamp with microseconds, parsed again
C5_Witness ==
    /\ pc = "reparsed" /\ form = "isoformat" /\ SixDigitFracZ(dt_str)
    /\ outcome.value.microsecond = 123456
    /\ outcome2 = outcome

\* C6: a fraction of more than 6 digits is truncated, not rounded: the
\* microseconds are the number its first 6 digits write.
C6_Truncation ==
    Called /\ InGrammar(dt_str) /\ Succeeded /\ Len(WrittenFrac(dt_str)) > 6
        => outcome.value.microsecond = Written(SubSeq(WrittenFrac(dt_str), 1, 6))

\* .0000005 parsed to 0 microseconds
C6_Witness ==
    /\ Called /\ InGrammar(dt_str) /\ Succeeded
    /\ WrittenFrac(dt_str) = <<"0", "0", "0", "0", "0", "0", "5">>
    /\ outcome.value.microsecond = 0

\* C7: a fraction of n digits, 1 <= n <= 6, is scaled by 10^(6-n); without a
\* fraction the microseconds are 0.
C7_Scaling ==
    Called /\ InGrammar(dt_str) /\ Succeeded
        => LET frac == WrittenFrac(dt_str)
               n == Len(frac)
           IN  /\ n = 0 => outcome.value.microsecond = 0
               /\ n \in 1..6 =>
                      outcome.value.microsecond =
                          Written(frac) * <<100000, 10000, 1000, 100, 10, 1>>[n]

\* .123 parsed to 123000 microseconds
C7_Witness ==
    /\ Called /\ InGrammar(dt_str) /\ Succeeded
    /\ WrittenFrac(dt_str) = <<"1", "2", "3">>
    /\ outcome.value.microsecond = 123000

\* C8: the UTC offset of the result is 0 for Z and z, +(HH*60+MM) minutes
\* for +HH:MM and -(HH*60+MM) minutes for -HH:MM.
C8_Offset ==
    Called /\ InGrammar(dt_str) /\ Succeeded
        => outcome.value.tzinfo.utcoffset = WrittenOffset(dt_str)

\* -04:45 parsed to -285 minutes
C8_Witness ==
    /\ Called /\ InGrammar(dt_str) /\ Succeeded
    /\ SubSeq(dt_str, Len(dt_str) - 5, Len(dt_str)) = Offset("-", 4, 45)
    /\ outcome.value.tzinfo.utcoffset = -285

\* C9: a string of the grammar whose offset is 24 hours or more in magnitude
\* returns None, and the call does not raise.
C9_OffsetOutOfRange ==
    Called /\ InGrammar(dt_str)
           /\ (WrittenOffset(dt_str) >= 24 * 60 \/ WrittenOffset(dt_str) <= -(24 * 60))
        => outcome = Return(None)

\* +25:00 returned None
C9_Witness ==
    /\ Called /\ InGrammar(dt_str)
    /\ WrittenOffset(dt_str) = 25 * 60
    /\ Failed

\* C10: spelling the separator t for T or T for t, and the designator z for
\* Z or Z for z, does not change the result: the same timestamp, or None
\* both times.
C10_CaseInsensitive ==
    pc = "reparsed" /\ form \in {"respell_t", "respell_z", "respell_tz"}
        => outcome2 = outcome

\* a timestamp parsed in both spellings of its separator and designator
C10_Witness ==
    /\ pc = "reparsed" /\ form = "respell_tz"
    /\ InGrammar(dt_str) /\ InGrammar(text)
    /\ dt_str[11] = "T" /\ dt_str[Len(dt_str)] = "Z"
    /\ text[11] = "t" /\ text[Len(text)] = "z"
    /\ Succeeded /\ outcome2 = outcome

\* C11: every result of parse_rfc3339 that is not None has its month in
\* 1..12, its day in 1..31, its hour in 0..23, its minute and its second in
\* 0..59 and its microseconds in 0..999999.
C11_FieldRanges ==
    Called /\ ~Failed
        => /\ Succeeded
           /\ outcome.value.month \in 1..12
           /\ outcome.value.day \in 1..31
           /\ outcome.value.hour \in 0..23
           /\ outcome.value.minute \in 0..59
           /\ outcome.value.second \in 0..59
           /\ outcome.value.microsecond \in 0..999999

\* a result at the upper end of the ranges of its time of day
C11_Witness ==
    /\ Called /\ Succeeded
    /\ outcome.value.month = 12 /\ outcome.value.day = 31
    /\ outcome.value.hour = 23 /\ outcome.value.minute = 59
    /\ outcome.value.second = 59

(***************************************************************************)
(* The response models: classes derived from ArlulaObject, built from a    *)
(* payload.  A payload (a dict decoded from JSON) is a function from its   *)
(* keys; an object is its class and its attributes.                        *)
(***************************************************************************)
\* common.py:7-13: the methods ArlulaObject declares with abc.abstractmethod
ArlulaObject_abstract == {"dict"}

\* the methods each class derived from ArlulaObject defines in its body,
\* besides __init__
class_defines ==
    [ Order        |-> {"__dict__"},
      Dataset      |-> {"__dict__"},
      Campaign     |-> {"__dict__"},
      Resource     |-> {"__str__", "dict"},
      SearchResult |-> {"calculate_price", "dict", "__str__"},
      CenterPoint  |-> {"dict", "__str__"},
      Percent      |-> {"dict", "__str__"},
      Overlap      |-> {"dict", "__str__"},
      License      |-> {"dict", "__str__"},
      Band         |-> {"centre", "width", "dict", "__str__"},
      Bundle       |-> {"dict", "__str__"},
      SearchResponse        |-> {"__str__", "dict"},
      TaskingSearchResponse |-> {},
      TaskingSearchResult   |-> {},
      TaskingSearchFailure  |-> {} ]

\* abc: the abstract methods a class is left with; a class that does not
\* derive from ArlulaObject (list.py, collections.py) inherits none
abstractmethods(cls) ==
    IF cls \in DOMAIN class_defines
    THEN ArlulaObject_abstract \ class_defines[cls]
    ELSE {}

\* one assignment of an __init__: self.<attr> = <how>(data[<key>])
Assign(attr, how, key, of) == [attr |-> attr, how |-> how, key |-> key, of |-> of]

\* the assignments of each __init__, in the order of its body.
\*   item       data[key]
\*   get        data.get(key, None)
\*   get_list   data.get(key, [])
\*   if_in      data[key] if key in data, else []
\*   parse      parse_rfc3339(data[key])
\*   parse_in   parse_rfc3339(data[key]) if key in data else None
\*   new        of(data[key])
\*   list       [of(x) for x in data[key]]
\*   get_new    [of(x) for x in data.get(key, [])]
\*   self       data
\*   in_or      data[key] if key in data else of
\*   in_tuple   (data[key] if key in data else None,)
\*   index      data[key], data a list
\*   new_in     [of(x) for x in data[key]] if key in data else []
\*   new_opt    [of(x) for x in data[key]]
\*                  if key in data and data[key] is not None else []
\*              (a payload here holds a list under such a key, never null)
\*   map        {k: of(v) for k, v in data[key].items()}
\*   map_in     {k: of(v) for k, v in data[key].items()} if key in data else None
class_init ==
    [ Order |->
        << Assign("id", "item", "id", ""),
           Assign("created_at", "parse", "createdAt", ""),
           Assign("updated_at", "parse", "updatedAt", ""),
           Assign("status", "item", "status", ""),
           Assign("total", "item", "total", ""),
           Assign("discount", "item", "discount", ""),
           Assign("tax", "item", "tax", ""),
           Assign("refunded", "get", "refunded", ""),
           Assign("payment_method", "item", "paymentMethod", ""),
           Assign("monitor", "get", "monitor", ""),
           Assign("campaigns", "get_list", "campaigns", ""),
           Assign("campaigns", "get_new", "campaigns", "Campaign"),
           Assign("datasets", "get_new", "datasets", "Dataset") >>,
      Dataset |->
        << Assign("id", "item", "id", ""),
           Assign("created_at", "parse", "createdAt", ""),
           Assign("updated_at", "parse", "updatedAt", ""),
           Assign("type", "item", "type", ""),
           Assign("status", "item", "status", ""),
           Assign("supplier", "item", "supplier", ""),
           Assign("ordering_id", "item", "orderingID", ""),
           Assign("scene_id", "item", "sceneID", ""),
           Assign("bundle", "item", "bundle", ""),
           Assign("eula", "item", "eula", ""),
           Assign("total", "item", "total", ""),
           Assign("discount", "item", "discount", ""),
           Assign("tax", "item", "tax", ""),
           Assign("refunded", "get", "refunded", ""),
           Assign("order", "item", "order", ""),
           Assign("campaign", "get", "campaign", ""),
           Assign("expiration", "parse_in", "expiration", ""),
           Assign("resources", "get_new", "resources", "Resource") >>,
      Campaign |->
        << Assign("id", "item", "id", ""),
           Assign("created_at", "parse", "createdAt", ""),
           Assign("updated_at", "parse", "updatedAt", ""),
           Assign("status", "item", "status", ""),
           Assign("ordering_id", "item", "orderingID", ""),
           Assign("bundle", "item", "bundle", ""),
           Assign("license", "item", "license", ""),
           Assign("priority", "item", "priority", ""),
           Assign("total", "item", "total", ""),
           Assign("discount", "item", "discount", ""),
           Assign("tax", "item", "tax", ""),
           Assign("refunded", "get", "refunded", ""),
           Assign("order", "item", "order", ""),
           Assign("site", "get", "site", ""),
           Assign("monitor", "get", "monitor", ""),
           Assign("start", "parse", "start", ""),
           Assign("end", "parse", "end", ""),
           Assign("aoi", "item", "aoi", ""),
           Assign("cloud", "item", "cloud", ""),
           Assign("off_nadir", "item", "offNadir", ""),
           Assign("supplier", "item", "supplier", ""),
           Assign("platforms", "item", "platforms", ""),
           Assign("gsd", "item", "gsd", ""),
           Assign("datasets", "get_new", "datasets", "Dataset") >>,
      Resource |->
        << Assign("id", "item", "id", ""),
           Assign("created_at", "parse", "createdAt", ""),
           Assign("updated_at", "parse", "updatedAt", ""),
           Assign("dataset", "item", "dataset", ""),
           Assign("name", "item", "name", ""),
           Assign("type", "item", "type", ""),
           Assign("format", "item", "format", ""),
           Assign("roles", "item", "roles", ""),
           Assign("size", "item", "size", ""),
           Assign("checksum", "item", "checksum", "") >>,
      SearchResult |->
        << Assign("scene_id", "item", "sceneID", ""),
           Assign("supplier", "item", "supplier", ""),
           Assign("platform", "item", "platform", ""),
           Assign("date", "parse", "date", ""),
           Assign("thumbnail", "item", "thumbnail", ""),
           Assign("cloud", "item", "cloud", ""),
           Assign("off_nadir", "item", "offNadir", ""),
           Assign("gsd", "item", "gsd", ""),
           Assign("bands", "list", "bands", "Band"),
           Assign("area", "item", "area", ""),
           Assign("center", "new", "center", "CenterPoint"),
           Assign("bounding", "item", "bounding", ""),
           Assign("overlap", "new", "overlap", "Overlap"),
           Assign("fulfillment_time", "item", "fulfillmentTime", ""),
           Assign("ordering_id", "item", "orderingID", ""),
           Assign("bundles", "list", "bundles", "Bundle"),
           Assign("licenses", "list", "licenses", "License"),
           Assign("annotations", "if_in", "annotations", "") >>,
      CenterPoint |->
        << Assign("long", "item", "long", ""),
           Assign("lat", "item", "lat", "") >>,
      Percent |->
        << Assign("scene", "item", "scene", ""),
           Assign("search", "item", "search", "") >>,
      Overlap |->
        << Assign("area", "item", "area", ""),
           Assign("percent", "new", "percent", "Percent"),
           Assign("polygon", "item", "polygon", "") >>,
      License |->
        << Assign("name", "item", "name", ""),
           Assign("href", "item", "href", ""),
           Assign("loading_percent", "item", "loadingPercent", ""),
           Assign("loading_amount", "item", "loadingAmount", "") >>,
      Band |->
        << Assign("name", "item", "name", ""),
           Assign("id", "item", "id", ""),
           Assign("min", "item", "min", ""),
           Assign("max", "item", "max", "") >>,
      Bundle |->
        << Assign("name", "item", "name", ""),
           Assign("key", "item", "key", ""),
           Assign("bands", "item", "bands", ""),
           Assign("price", "item", "price", "") >>,
      SearchResponse |->
        << Assign("data", "self", "", ""),
           Assign("state", "in_or", "state", ""),
           Assign("errors", "if_in", "errors", ""),
           Assign("warnings", "if_in", "warnings", ""),
           Assign("results", "new_in", "results", "SearchResult") >>,
      TaskingSearchResponse |->
        << Assign("results", "new_in", "results", "TaskingSearchResult"),
           Assign("failures", "new_in", "errors", "TaskingSearchFailure") >>,
      Provider |->
        << Assign("name", "item", "name", ""),
           Assign("description", "get", "description", ""),
           Assign("roles", "item", "roles", ""),
           Assign("url", "item", "url", "") >>,
      BBox |->
        << Assign("south", "index", 0, ""),
           Assign("west", "index", 1, ""),
           Assign("north", "index", 2, ""),
           Assign("east", "index", 3, "") >>,
      Interval |->
        << Assign("start", "get", "start", ""),
           Assign("end", "get", "end", "") >>,
      SpatialExtents |->
        << Assign("bbox", "new_opt", "bbox", "BBox") >>,
      TemporalExtents |->
        << Assign("interval", "new_opt", "interval", "Interval") >>,
      Extent |->
        << Assign("spatial", "new", "spatial", "SpatialExtents"),
           Assign("temporal", "new", "temporal", "TemporalExtents") >>,
      Asset |->
        << Assign("href", "item", "href", ""),
           Assign("type", "item", "type", ""),
           Assign("roles", "item", "roles", ""),
           Assign("data", "self", "", "") >>,
      Link |->
        << Assign("href", "get", "href", ""),
           Assign("rel", "get", "rel", ""),
           Assign("type", "get", "type", ""),
           Assign("title", "get", "title", "") >>,
      Collection |->
        << Assign("id", "item", "id", ""),
           Assign("type", "item", "type", ""),
           Assign("stac_version", "in_or", "stac_version", ""),
           Assign("stac_extensions", "in_or", "stac_extensions", ""),
           Assign("title", "item", "title", ""),
           Assign("description", "item", "description", ""),
           Assign("keywords", "if_in", "keywords", ""),
           Assign("license", "item", "license", ""),
           Assign("providers", "new_opt", "providers", "Provider"),
           Assign("extent", "new", "extent", "Extent"),
           Assign("assets", "map_in", "assets", "Asset"),
           Assign("summaries", "get", "summaries", ""),
           Assign("links", "new_opt", "links", "Link") >>,
      CollectionItem |->
        << Assign("type", "item", "type", ""),
           Assign("stac_version", "item", "stac_version", ""),
           Assign("stac_extensions", "item", "stac_extensions", ""),
           Assign("crs", "in_tuple", "crs", ""),
           Assign("id", "item", "id", ""),
           Assign("bbox", "item", "bbox", ""),
           Assign("geometry", "item", "geometry", ""),
           Assign("properties", "item", "properties", ""),
           Assign("assets", "map", "assets", "Asset"),
           Assign("links", "list", "links", "Link") >>,
      CollectionListResponseContext |->
        << Assign("page", "item", "page", ""),
           Assign("limit", "item", "limit", ""),
           Assign("matched", "item", "matched", "") >>,
      CollectionListResponse |->
        << Assign("collections", "list", "collections", "Collection"),
           Assign("links", "list", "links", "Link"),
           Assign("context", "new", "context", "CollectionListResponseContext") >>,
      CollectionListItemsResponse |->
        << Assign("type", "item", "type", ""),
           Assign("features", "list", "features", "CollectionItem"),
           Assign("links", "list", "links", "Link"),
           Assign("timestamp", "parse", "timeStamp", ""),
           Assign("number_matched", "item", "numberMatched", "") >>,
      CollectionConformanceResponse |->
        << Assign("conforms_to", "item", "conformsTo", "") >>,
      CollectionSearchResponseContext |->
        << Assign("limit", "item", "limit", ""),
           Assign("matched", "item", "matched", "") >>,
      CollectionSearchResponse |->
        << Assign("type", "item", "type", ""),
           Assign("stac_version", "item", "stac_version", ""),
           Assign("stac_extensions", "item", "stac_extensions", ""),
           Assign("context", "new", "context", "CollectionSearchResponseContext"),
           Assign("number_matched", "item", "numberMatched", ""),
           Assign("number_returned", "item", "numberReturned", ""),
           Assign("links", "item", "links", ""),
           Assign("features", "item", "features", "") >> ]

\* the first raise of a sequence of results, or the sequence of their values
AllOrFirstRaise(results) ==
    LET bad == {i \in 1..Len(results) : results[i].kind = "raise"}
    IN  IF bad # {}
        THEN results[CHOOSE i \in bad : \A j \in bad : i <= j]
        ELSE Return([i \in 1..Len(results) |-> results[i].value])

\* the first raise of a dict comprehension, or the dict of its values
AllOrFirstRaiseOf(results) ==
    LET bad == {k \in DOMAIN results : results[k].kind = "raise"}
    IN  IF bad # {}
        THEN results[CHOOSE k \in bad : TRUE]
        ELSE Return([k \in DOMAIN results |-> results[k].value])

RECURSIVE new(_, _)
\* the right-hand side of one assignment
assigned(a, data) ==
    CASE a.how = "self" -> Return(data)
      [] a.how = "index" ->
           IF a.key + 1 \in DOMAIN data THEN Return(data[a.key + 1])
           ELSE Raise("IndexError")
      [] a.how = "in_or" ->
           Return(IF a.key \in DOMAIN data THEN data[a.key] ELSE a.of)
      [] a.how = "in_tuple" ->
           Return(<< IF a.key \in DOMAIN data THEN data[a.key] ELSE None >>)
      [] a.how \in {"new_in", "new_opt"} ->
           IF a.key \in DOMAIN data
           THEN AllOrFirstRaise([i \in 1..Len(data[a.key]) |-> new(a.of, data[a.key][i])])
           ELSE Return(<<>>)
      [] a.how = "map_in" ->
           IF a.key \in DOMAIN data
           THEN AllOrFirstRaiseOf([k \in DOMAIN data[a.key] |-> new(a.of, data[a.key][k])])
           ELSE Return(None)
      [] a.how = "get" ->
           Return(IF a.key \in DOMAIN data THEN data[a.key] ELSE None)
      [] a.how = "get_list" ->
           Return(IF a.key \in DOMAIN data THEN data[a.key] ELSE <<>>)
      [] a.how = "if_in" ->
           Return(IF a.key \in DOMAIN data THEN data[a.key] ELSE <<>>)
      [] a.how = "parse_in" ->
           IF a.key \in DOMAIN data THEN parse_rfc3339(data[a.key]) ELSE Return(None)
      [] a.how = "get_new" ->
           IF a.key \in DOMAIN data
           THEN AllOrFirstRaise([i \in 1..Len(data[a.key]) |-> new(a.of, data[a.key][i])])
           ELSE Return(<<>>)
      [] a.key \notin DOMAIN data -> Raise("KeyError")
      [] a.how = "item" -> Return(data[a.key])
      [] a.how = "parse" -> parse_rfc3339(data[a.key])
      [] a.how = "new" -> new(a.of, data[a.key])
      [] a.how = "list" ->
           AllOrFirstRaise([i \in 1..Len(data[a.key]) |-> new(a.of, data[a.key][i])])
      [] a.how = "map" ->
           AllOrFirstRaiseOf([k \in DOMAIN data[a.key] |-> new(a.of, data[a.key][k])])

\* a class with no abstract method left
new_concrete(cls, data) ==
    LET init == class_init[cls]
        rhs  == AllOrFirstRaise([i \in 1..Len(init) |-> assigned(init[i], data)])
        last(attr) == CHOOSE i \in 1..Len(init) :
                          /\ init[i].attr = attr
                          /\ \A j \in 1..Len(init) : init[j].attr = attr => j <= i
    IN  IF rhs.kind = "raise" THEN rhs
        ELSE Return([kind  |-> "object",
                     cls   |-> cls,
                     data  |-> data,
                     attrs |-> [attr \in {init[i].attr : i \in 1..Len(init)} |->
                                  rhs.value[last(attr)]]])

\* cls(data): object.__new__ raises TypeError for a class that is left with
\* an abstract method, before __init__ runs
new(cls, data) ==
    IF abstractmethods(cls) # {} THEN Raise("TypeError") ELSE new_concrete(cls, data)

(***************************************************************************)
(* The payloads: each class's complete payload, with every choice of its   *)
(* timestamps and of its optional keys, and with one required key missing. *)
(***************************************************************************)
\* a timestamp that parses, and strings that do not
Stamps ==
    { BaseDate \o <<"T">> \o BaseTime \o <<"Z">>,
      <<>>, <<"x">>, Date(2021, 2, 30) \o <<"T">> \o BaseTime \o <<"Z">>,
      BaseDate \o <<" ">> \o BaseTime \o <<"Z">> }

\* the keys each __init__ gives to parse_rfc3339
stamp_keys ==
    [ Order        |-> {"createdAt", "updatedAt"},
      Dataset      |-> {"createdAt", "updatedAt", "expiration"},
      Campaign     |-> {"createdAt", "updatedAt", "start", "end"},
      Resource     |-> {"createdAt", "updatedAt"},
      SearchResult |-> {"date"} ]

\* a complete payload of each class
payload_of ==
    LET stamp    == BaseDate \o <<"T">> \o BaseTime \o <<"Z">>
        resource ==
          [ id |-> "res-1", createdAt |-> stamp, updatedAt |-> stamp,
            dataset |-> "ds-1", name |-> "thumb.jpg", type |-> "img_jpg",
            format |-> "image/jpeg", roles |-> <<"thumbnail">>, size |-> 1024,
            checksum |-> "md5:0" ]
    IN
    [ Resource |-> resource,
      Dataset |->
        [ id |-> "ds-1", createdAt |-> stamp, updatedAt |-> stamp,
          type |-> "archive", status |-> "complete", supplier |-> "sup",
          orderingID |-> "oid", sceneID |-> "scene", bundle |-> "default",
          eula |-> "href", total |-> 1000, discount |-> 0, tax |-> 100,
          refunded |-> 0, order |-> "ord-1", campaign |-> "cmp-1",
          expiration |-> stamp, resources |-> <<resource>> ],
      Campaign |->
        [ id |-> "cmp-1", createdAt |-> stamp, updatedAt |-> stamp,
          status |-> "complete", orderingID |-> "oid", bundle |-> "default",
          license |-> "href", priority |-> "standard", total |-> 1000,
          discount |-> 0, tax |-> 100, refunded |-> 0, order |-> "ord-1",
          site |-> "site", monitor |-> "mon", start |-> stamp,
          end |-> stamp, aoi |-> <<>>, cloud |-> 10, offNadir |-> 20,
          supplier |-> "sup", platforms |-> <<"sat">>, gsd |-> 1,
          datasets |-> <<>> ],
      Order |->
        [ id |-> "ord-1", createdAt |-> stamp, updatedAt |-> stamp,
          status |-> "complete", total |-> 1000, discount |-> 0, tax |-> 100,
          refunded |-> 0, paymentMethod |-> "card", monitor |-> "mon",
          campaigns |-> <<>>, datasets |-> <<>> ],
      SearchResult |->
        [ sceneID |-> "scene", supplier |-> "sup", platform |-> "sat",
          date |-> stamp, thumbnail |-> "url", cloud |-> 10, offNadir |-> 20,
          gsd |-> 1,
          bands |-> << [name |-> "Red", id |-> "red", min |-> 600, max |-> 700] >>,
          area |-> 100, center |-> [long |-> 151, lat |-> -33],
          bounding |-> <<>>,
          overlap |-> [area |-> 50, percent |-> [scene |-> 50, search |-> 100],
                       polygon |-> <<>>],
          fulfillmentTime |-> 0, orderingID |-> "oid",
          bundles |-> << [name |-> "Default", key |-> "default",
                          bands |-> <<>>, price |-> 1000] >>,
          licenses |-> << [name |-> "Internal", href |-> "href",
                           loadingPercent |-> 10, loadingAmount |-> 0] >>,
          annotations |-> <<>> ] ]

\* the keys a payload may leave out
optional_keys ==
    [ Order        |-> {"refunded", "monitor", "campaigns", "datasets"},
      Dataset      |-> {"refunded", "campaign", "expiration", "resources"},
      Campaign     |-> {"refunded", "site", "monitor", "datasets"},
      Resource     |-> {},
      SearchResult |-> {"annotations"} ]

\* the lists of payloads of nested models that an order or a campaign carries
nested_lists ==
    [ Order        |-> {<<"campaigns", <<payload_of["Campaign"]>> >>,
                        <<"datasets", <<payload_of["Dataset"]>> >>},
      Dataset      |-> {},
      Campaign     |-> {<<"datasets", <<payload_of["Dataset"]>> >>},
      Resource     |-> {},
      SearchResult |-> {} ]

\* the complete payload with two of its timestamp keys given a string each;
\* that without one of its optional keys; that with a nested model; and the
\* complete payload without one of its keys
Payloads(cls) ==
    LET With(f, k, v) == [x \in DOMAIN f \cup {k} |-> IF x = k THEN v ELSE f[x]]
        Without(f, k) == [x \in DOMAIN f \ {k} |-> f[x]]
        stamped == { With(With(payload_of[cls], k1, s1), k2, s2) :
                       k1 \in stamp_keys[cls], s1 \in Stamps,
                       k2 \in stamp_keys[cls], s2 \in Stamps }
    IN  stamped
          \cup { Without(p, k) : p \in stamped, k \in optional_keys[cls] }
          \cup { With(p, n[1], n[2]) : p \in stamped, n \in nested_lists[cls] }
          \cup { Without(payload_of[cls], k) : k \in DOMAIN payload_of[cls] }

InitModels ==
    /\ IdleExcept("models")
    /\ model_cls \in DOMAIN payload_of
    /\ model_data \in Payloads(model_cls)
    /\ model_out = NotCalled

\* model_cls(model_data)
Construct ==
    /\ model_out = NotCalled
    /\ model_out' = new(model_cls, model_data)
    /\ UNCHANGED <<model_cls, model_data>>
    /\ UnchangedExcept("models")

NextModels == Construct

SpecModels == InitModels /\ [][NextModels]_vars

\* a payload with every key its __init__ subscripts
Complete(cls, data) ==
    \A i \in 1..Len(class_init[cls]) :
        class_init[cls][i].how \in {"item", "parse", "new", "list"}
            => class_init[cls][i].key \in DOMAIN data

\* the value of a timestamp key does not parse
Unparseable(data, k) == k \in DOMAIN data /\ parse_rfc3339(data[k]) = Return(None)

\* the attribute that an assignment sets from a key, when nothing is parsed
\* or constructed on the way
Populated(obj, a, data) ==
    CASE a.how = "item" -> obj.attrs[a.attr] = data[a.key]
      [] a.how = "get" ->
           obj.attrs[a.attr] = (IF a.key \in DOMAIN data THEN data[a.key] ELSE None)
      [] a.how = "if_in" ->
           obj.attrs[a.attr] = (IF a.key \in DOMAIN data THEN data[a.key] ELSE <<>>)
      [] a.how \in {"list", "get_new"} ->
           Len(obj.attrs[a.attr]) =
               (IF a.key \in DOMAIN data THEN Len(data[a.key]) ELSE 0)
      [] a.how = "new" -> obj.attrs[a.attr].kind = "object"
      [] OTHER -> TRUE

\* C12: constructing Order, Dataset, Campaign, Resource or SearchResult from a
\* payload one of whose timestamp fields is a string that does not parse does
\* not raise: the object is built, that timestamp attribute is None and every
\* other attribute is populated from the payload.
C12_UnparseableTimestamp ==
    /\ model_out # NotCalled
    /\ Complete(model_cls, model_data)
    /\ \E k \in stamp_keys[model_cls] : Unparseable(model_data, k)
    => /\ model_out.kind = "return"
       /\ \A i \in 1..Len(class_init[model_cls]) :
            LET a == class_init[model_cls][i]
            IN  /\ a.how \in {"parse", "parse_in"} /\ Unparseable(model_data, a.key)
                     => model_out.value.attrs[a.attr] = None
                /\ a.attr # "campaigns"
                     => Populated(model_out.value, a, model_data)

(***************************************************************************)
(* Concurrent calls of parse_rfc3339.  Each thread runs the function in    *)
(* its own frame, statement by statement; the statements of the threads    *)
(* interleave.  The compiled __date_rx__ is shared and never written.  A   *)
(* match object lives on the heap, and the local variable result of the    *)
(* frame that searched refers to it.                                       *)
(***************************************************************************)
NThreads == 2

Threads == 1..NThreads

ThreadInputs ==
    { BaseDate \o <<"T">> \o BaseTime \o <<"Z">>,
      BaseDate \o <<"t">> \o BaseTime \o Frac(<<"1", "2", "3">>) \o Offset("-", 4, 45),
      Date(2020, 2, 29) \o <<"T">> \o Time(0, 0, 0) \o Offset("+", 10, 0),
      Date(2021, 2, 29) \o <<"T">> \o Time(0, 0, 0) \o <<"Z">>,
      BaseDate \o <<"T">> \o BaseTime \o Offset("+", 25, 0),
      <<"x">> }

\* the frame of a call that has not started
Frame(input) ==
    [input |-> input, pc |-> "search", result |-> 0, sec_frac_int |-> 0,
     tz |-> None, out |-> NotCalled]

\* a match that another frame's search allocated last
shared_match(t) == heap[Len(heap)]

\* the match that the local variable result of thread t refers to
local_match(t) == heap[thr[t].result]

InitThreads ==
    /\ IdleExcept("threads")
    /\ thr \in [Threads -> {Frame(s) : s \in ThreadInputs}]
    /\ heap = <<>>

\* line 35: result = re.search(__date_rx__, dt_str)
T_Search(t) ==
    /\ thr[t].pc = "search"
    /\ LET m == date_rx_search(thr[t].input)
       IN  IF m = None
           THEN /\ thr' = [thr EXCEPT ![t].pc = "check"]
                /\ UNCHANGED heap
           ELSE /\ heap' = Append(heap, m)
                /\ thr' = [thr EXCEPT ![t].pc = "check", ![t].result = Len(heap) + 1]
    /\ UnchangedExcept("threads")

\* lines 37-38: result.lastindex raises AttributeError on None, and the
\* except of lines 70-71 returns None
T_Check(t) ==
    /\ thr[t].pc = "check"
    /\ IF thr[t].result = 0
       THEN thr' = [thr EXCEPT ![t].pc = "done", ![t].out = Return(None)]
       ELSE IF local_match(t).lastindex < 7 \/ local_match(t).lastindex > 11
       THEN thr' = [thr EXCEPT ![t].pc = "done", ![t].out = Return(None)]
       ELSE thr' = [thr EXCEPT ![t].pc = "frac"]
    /\ UNCHANGED heap
    /\ UnchangedExcept("threads")

\* lines 40-45
T_Frac(t) ==
    /\ thr[t].pc = "frac"
    /\ thr' = [thr EXCEPT ![t].pc = "tz",
                          ![t].sec_frac_int =
                              IF local_match(t).sec_frac # NoGroup
                              THEN sec_frac_micro(local_match(t).sec_frac) ELSE 0]
    /\ UNCHANGED heap
    /\ UnchangedExcept("threads")

\* lines 47-58
T_Tz(t) ==
    /\ thr[t].pc = "tz"
    /\ LET tz == match_tz(local_match(t))
       IN  IF tz.kind = "raise"
           THEN thr' = [thr EXCEPT ![t].pc = "done", ![t].out = Return(None)]
           ELSE thr' = [thr EXCEPT ![t].pc = "build", ![t].tz = tz.value]
    /\ UNCHANGED heap
    /\ UnchangedExcept("threads")

\* lines 60-71
T_Build(t) ==
    /\ thr[t].pc = "build"
    /\ LET m == local_match(t)
           dt == datetime(int(m.year), int(m.month), int(m.day),
                          int(m.hour), int(m.minute), int(m.second),
                          thr[t].sec_frac_int, thr[t].tz)
       IN  thr' = [thr EXCEPT ![t].pc = "done",
                              ![t].out = IF dt.kind = "raise" THEN Return(None) ELSE dt]
    /\ UNCHANGED heap
    /\ UnchangedExcept("threads")

NextThreads ==
    \E t \in Threads : T_Search(t) \/ T_Check(t) \/ T_Frac(t) \/ T_Tz(t) \/ T_Build(t)

SpecThreads == InitThreads /\ [][NextThreads]_vars

\* C13: parse_rfc3339 shares no mutable state between its calls: however the
\* statements of concurrent calls interleave, what each call returns is what
\* the function returns for that call's own argument.
C13_ThreadsIndependent ==
    \A t \in Threads :
        thr[t].pc = "done" => thr[t].out = parse_rfc3339(thr[t].input)

\* thread 2 searched first, thread 1 searched before thread 2 was done, and
\* the two calls returned a timestamp each, one different from the other
C13_Witness ==
    /\ thr[1].pc = "done" /\ thr[2].pc = "done"
    /\ thr[2].result = 1 /\ thr[1].result = 2
    /\ thr[1].out.value.kind = "datetime" /\ thr[2].out.value.kind = "datetime"
    /\ thr[1].out # thr[2].out

(***************************************************************************)
(* Python float arithmetic, as far as calculate_price uses it.  A float is *)
(* an IEEE 754 double: a mantissa of at most 53 bits and an exponent,      *)
(* m * 2^e.  The mantissa is a sequence of bits, the lowest first, because *)
(* it does not fit an integer of the model.  Every operation computes the  *)
(* exact result and rounds it to the nearest double, ties to even.  The    *)
(* values of calculate_price lie far from overflow and from subnormals.    *)
(***************************************************************************)
\* sys.float_info.mant_dig
MantDig == 53

\* the guard bits that a quotient is computed with before it is rounded
DivGuard == 64

\* the bits of a natural number below 2^30, the lowest first
BitsOf(n) ==
    LET width == CHOOSE w \in 0..30 : n < 2 ^ w /\ (w = 0 \/ 2 ^ (w - 1) <= n)
    IN  SubSeq([i \in 1..30 |-> (n \div 2 ^ (i - 1)) % 2], 1, width)

\* bit i of a sequence of bits, the lowest first
Bit(b, i) == IF i <= Len(b) THEN b[i] ELSE 0

\* the natural numbers of the 2, the 4 and the 8 bits from bit i
Val2(b, i) == Bit(b, i) + 2 * Bit(b, i + 1)

Val4(b, i) == Val2(b, i) + 4 * Val2(b, i + 2)

Val8(b, i) == Val4(b, i) + 16 * Val4(b, i + 4)

\* the natural number, below 2^31, of a sequence of bits
ValOf(b) == (Val8(b, 1) + 256 * Val8(b, 9)) + 65536 * (Val8(b, 17) + 256 * Val8(b, 25))

\* without its leading zeros
Trim(b) ==
    LET ones == {i \in 1..Len(b) : b[i] = 1}
    IN  IF ones = {} THEN <<>>
        ELSE SubSeq(b, 1, CHOOSE i \in ones : \A j \in ones : j <= i)

\* b * 2^k
ShiftL(b, k) == [i \in 1..(Len(b) + k) |-> IF i <= k THEN 0 ELSE b[i - k]]

\* The arithmetic on mantissas goes limb by limb: a limb is the number of
\* LimbBits consecutive bits.
LimbBits == 14

LimbBase == 2 ^ LimbBits

\* the limbs of a sequence of bits, the lowest first
Limbs(b) ==
    LET n == (Len(b) + LimbBits - 1) \div LimbBits
    IN  SubSeq([j \in 1..n |->
                   ValOf(SubSeq(b, (j - 1) * LimbBits + 1,
                                IF j * LimbBits < Len(b) THEN j * LimbBits ELSE Len(b)))],
               1, n)

\* the bits of a sequence of limbs
Unlimbs(l) ==
    IF l = <<>> THEN <<>>
    ELSE Trim([i \in 1..(Len(l) * LimbBits) |->
                 (l[((i - 1) \div LimbBits) + 1] \div 2 ^ ((i - 1) % LimbBits)) % 2])

LimbAt(l, j) == IF j <= Len(l) THEN l[j] ELSE 0

\* the limbs of a + b: limb j is the sum of the two limbs and of the carry
\* into it, and there is a carry into limb j when a lower limb overflows and
\* every limb between the two is full
AddLimbs(a, b) ==
    LET n        == IF Len(a) < Len(b) THEN Len(b) ELSE Len(a)
        sum(j)   == LimbAt(a, j) + LimbAt(b, j)
        carry(j) == IF \E k \in 1..(j - 1) :
                           /\ sum(k) >= LimbBase
                           /\ \A i \in (k + 1)..(j - 1) : sum(i) = LimbBase - 1
                    THEN 1 ELSE 0
    IN  SubSeq([j \in 1..(n + 1) |-> (sum(j) + carry(j)) % LimbBase], 1, n + 1)

AddBits(a, b) == Unlimbs(AddLimbs(Limbs(a), Limbs(b)))

RECURSIVE MulFrom(_, _, _, _)
\* the limbs from position j of b * k, given the carry into position j
MulFrom(b, k, j, carry) ==
    IF j > Len(b) THEN (IF carry = 0 THEN <<>> ELSE <<carry % LimbBase, carry \div LimbBase>>)
    ELSE LET t == b[j] * k + carry
         IN  <<t % LimbBase>> \o MulFrom(b, k, j + 1, t \div LimbBase)

\* b * k for a k below 65536
MulSmall(b, k) == Unlimbs(MulFrom(Limbs(b), k, 1, 0))

RECURSIVE DivFrom(_, _, _, _)
\* long division by a small d, from the highest limb downwards: q holds the
\* quotient limbs of the limbs divided so far, the lowest first, and rem is
\* their remainder
DivFrom(b, d, q, rem) ==
    IF Len(q) = Len(b) THEN [q |-> q, r |-> rem]
    ELSE LET t == LimbBase * rem + b[Len(b) - Len(q)]
         IN  DivFrom(b, d, <<t \div d>> \o q, t % d)

\* b divided by a d below 65536
DivSmall(b, d) ==
    LET l  == Limbs(b)
        dv == DivFrom(l, d, <<>>, 0)
    IN  [r |-> dv.r, q |-> Unlimbs(dv.q)]

\* the double nearest to n * 2^e, or to a little more than that when sticky,
\* for the bits n of a number without leading zeros; ties go to the even
\* mantissa
RoundToDouble(n, e, sticky) ==
    LET b == n
        L == Len(b)
    IN  IF L <= MantDig THEN [m |-> b, e |-> e]
        ELSE LET shift == L - MantDig
                 q     == SubSeq(b, shift + 1, L)
                 guard == b[shift]
                 below == sticky \/ \E i \in 1..(shift - 1) : b[i] = 1
                 up    == guard = 1 /\ (below \/ q[1] = 1)
             IN  [m |-> IF up THEN AddBits(q, <<1>>) ELSE q, e |-> e + shift]

\* float(n) for an int n
float_of_int(n) == RoundToDouble(BitsOf(n), 0, FALSE)

\* x + y
float_add(x, y) ==
    IF x.e < y.e
    THEN RoundToDouble(AddBits(x.m, ShiftL(y.m, y.e - x.e)), x.e, FALSE)
    ELSE RoundToDouble(AddBits(ShiftL(x.m, x.e - y.e), y.m), y.e, FALSE)

\* k * x for an int k
float_mul_int(k, x) ==
    IF x.m = <<>> THEN x
    ELSE RoundToDouble(MulSmall(x.m, k), x.e, FALSE)

\* x / d for an int d
float_div_int(x, d) ==
    LET dv == DivSmall(ShiftL(x.m, DivGuard), d)
    IN  IF x.m = <<>> THEN x
        ELSE RoundToDouble(dv.q, x.e - DivGuard, dv.r # 0)

\* n / d for ints n and d
int_truediv(n, d) == float_div_int(float_of_int(n), d)

\* math.ceil(x)
math_ceil(x) ==
    IF x.e >= 0 THEN ValOf(ShiftL(x.m, x.e))
    ELSE LET k == -(x.e)
         IN  IF k >= Len(x.m) THEN (IF x.m = <<>> THEN 0 ELSE 1)
             ELSE ValOf(SubSeq(x.m, k + 1, Len(x.m)))
                    + (IF \E i \in 1..k : x.m[i] = 1 THEN 1 ELSE 0)

(***************************************************************************)
(* calculate_price                                                         *)
(***************************************************************************)
\* util.py:73-98
calculate_price(bundle_price, license_loading_percent, license_loading_amount, cloud_loading_percent, cloud_loading_amount, priority_loading_percent, priority_loading_amount) ==
    LET percentages1 == float_add(float_of_int(1), int_truediv(license_loading_percent, 100))
        percentages2 == float_add(percentages1, int_truediv(priority_loading_percent, 100))
        percentages  == float_add(percentages2, int_truediv(cloud_loading_percent, 100))
        loadings     == license_loading_amount + priority_loading_amount
                            + cloud_loading_amount
        price        == float_add(float_mul_int(bundle_price, percentages),
                                  float_of_int(loadings))
    IN  math_ceil(float_div_int(price, 100)) * 100

\* the largest bundle price of a call, in dollars, and the largest license
\* loading, in percent
MaxDollars == 30

MaxPercent == 15

\* every bundle price and license loading with the defaults of an archive
\* order, and the loadings of a tasking order on a few of them; the amounts
\* and the tasking loadings (cloud_loading_percent, cloud_loading_amount,
\* priority_loading_percent, priority_loading_amount) are those of
\* tests/test_price.py
PriceArgs ==
    LET BundlePrices    == {100 * k : k \in 0..MaxDollars} \cup {1, 99, 101}
        LicenseAmounts  == {0, 100, 124, 126}
        TaskingLoadings ==
            { <<0, 0, 0, 0>>, <<50, 0, 50, 0>>, <<0, 600, 0, 165>>,
              <<12, 322, 432, 321>>, <<400, 1600, 3200, 6400>> }
    IN  { <<b, lp, la, 0, 0, 0, 0>> :
            b \in BundlePrices, lp \in (0..MaxPercent) \cup {25, 50, 75},
            la \in LicenseAmounts }
          \cup { <<b, lp, la>> \o t :
                   b \in {100, 2500}, lp \in {0, 12, 25, 50, 75},
                   la \in LicenseAmounts, t \in TaskingLoadings }

InitPrice ==
    /\ IdleExcept("price")
    /\ price_args \in PriceArgs
    /\ price_out = NotCalled

\* calculate_price(*price_args)
CalculatePrice ==
    /\ price_out = NotCalled
    /\ price_out' = Return(calculate_price(price_args[1], price_args[2], price_args[3],
                                           price_args[4], price_args[5], price_args[6],
                                           price_args[7]))
    /\ UNCHANGED price_args
    /\ UnchangedExcept("price")

NextPrice == CalculatePrice

SpecPrice == InitPrice /\ [][NextPrice]_vars

\* the total of bundle price, percentages and amounts, in hundredths of a cent
TotalTimes100(a) == a[1] * (100 + a[2] + a[4] + a[6]) + 100 * (a[3] + a[5] + a[7])

\* C14: for non-negative integer arguments calculate_price returns the
\* smallest multiple of 100 that is not below bundle_price * (1 + (license %
\* + priority % + cloud %) / 100) + (license + priority + cloud amounts); a
\* total that is a whole number of dollars is returned as it is.
C14_SmallestMultiple ==
    price_out # NotCalled
        => /\ price_out.value % 100 = 0
           /\ price_out.value * 100 >= TotalTimes100(price_args)
           /\ (price_out.value - 100) * 100 < TotalTimes100(price_args)

(***************************************************************************)
(* The values of request objects and of the dicts they serialise to.  A    *)
(* dict is a function from its keys.                                       *)
(***************************************************************************)
StrVal(s) == [kind |-> "str", v |-> s]

IntVal(n) == [kind |-> "int", v |-> n]

ListVal(items) == [kind |-> "list", items |-> items]

\* a reference to a list object of the heap
Ref(at) == [kind |-> "ref", at |-> at]

\* a dict with every value, None included
remove_none_keeps_all(d) == d

\* util.py:11-12
remove_none(d) == [k \in {x \in DOMAIN d : d[x] # None} |-> d[k]]

\* common.py (not in src/): the href of a license and the key of a bundle
\* that are given as a str
get_license_href(license) == license

get_bundle_key(bundle) == bundle

(***************************************************************************)
(* ArchiveOrderRequest.  The defaults "webhooks=[]" and "emails=[]" of     *)
(* __init__ are evaluated once, when the class body is executed: they are  *)
(* two list objects, and every call that leaves the argument out gets the  *)
(* same object.  __init__ keeps the list it is given, not a copy.          *)
(***************************************************************************)
MaxOrders == 2

MaxListLen == 2

DefaultWebhooks == 1

DefaultEmails == 2

\* archive.py:468-482, given the references of the two lists
ArchiveOrderRequest_init(id, license, bundle, webhooks, emails) ==
    [id |-> StrVal(id), eula |-> StrVal(get_license_href(license)),
     bundle_key |-> StrVal(get_bundle_key(bundle)),
     webhooks |-> Ref(webhooks), emails |-> Ref(emails),
     team |-> None, payment |-> None]

\* archive.py:519-528
ArchiveOrderRequest_dict(self) ==
    remove_none([id        |-> self.id,
                 eula      |-> self.eula,
                 bundleKey |-> self.bundle_key,
                 webhooks  |-> ListVal(lists[self.webhooks.at]),
                 emails    |-> ListVal(lists[self.emails.at]),
                 team      |-> IF self.team = StrVal("") THEN None ELSE self.team,
                 payment   |-> IF self.payment = StrVal("") THEN None ELSE self.payment])

InitOrderRequest ==
    /\ IdleExcept("orderreq")
    /\ lists = << <<>>, <<>> >>
    /\ orders = <<>>
    /\ order_log = <<>>
    /\ order_dict = NotCalled

\* ArchiveOrderRequest(id, license, bundle[, webhooks[, emails]]): a list
\* that is given is a new object, which is appended to the heap before the
\* call
NewOrderRequest(id, W, E) ==
    /\ Len(orders) < MaxOrders
    /\ LET given == (IF W = "default" THEN <<>> ELSE <<W>>)
                       \o (IF E = "default" THEN <<>> ELSE <<E>>)
           w     == IF W = "default" THEN DefaultWebhooks ELSE Len(lists) + 1
           e     == IF E = "default" THEN DefaultEmails ELSE Len(lists) + Len(given)
       IN  /\ lists' = lists \o given
           /\ orders' = Append(orders,
                               ArchiveOrderRequest_init(id, "eula", "bundle_key", w, e))
           /\ order_log' = Append(order_log,
                                  [id |-> id, W |-> W, E |-> E,
                                   added_webhooks |-> <<>>, added_emails |-> <<>>])
    /\ order_dict' = NotCalled
    /\ UnchangedExcept("orderreq")

\* archive.py:492-494: orders[r].add_webhook(webhook)
AddWebhook(r, webhook) ==
    /\ r \in 1..Len(orders)
    /\ Len(lists[orders[r].webhooks.at]) < MaxListLen
    /\ lists' = [lists EXCEPT ![orders[r].webhooks.at] = Append(@, webhook)]
    /\ order_log' = [order_log EXCEPT ![r].added_webhooks = Append(@, webhook)]
    /\ order_dict' = NotCalled
    /\ UNCHANGED orders
    /\ UnchangedExcept("orderreq")

\* archive.py:500-502: orders[r].add_email(email)
AddEmail(r, email) ==
    /\ r \in 1..Len(orders)
    /\ Len(lists[orders[r].emails.at]) < MaxListLen
    /\ lists' = [lists EXCEPT ![orders[r].emails.at] = Append(@, email)]
    /\ order_log' = [order_log EXCEPT ![r].added_emails = Append(@, email)]
    /\ order_dict' = NotCalled
    /\ UNCHANGED orders
    /\ UnchangedExcept("orderreq")

\* orders[r].dict()
OrderRequestDict(r) ==
    /\ r \in 1..Len(orders)
    /\ order_dict' = [kind |-> "return", of |-> r,
                      value |-> ArchiveOrderRequest_dict(orders[r])]
    /\ UNCHANGED <<lists, orders, order_log>>
    /\ UnchangedExcept("orderreq")

NextOrderRequest ==
    \/ \E id \in {"id1", "id2"}, W \in {"default", <<"w0">>}, E \in {"default", <<"e0">>} :
          NewOrderRequest(id, W, E)
    \/ \E r \in 1..MaxOrders, webhook \in {"w1", "w2"} : AddWebhook(r, webhook)
    \/ \E r \in 1..MaxOrders, email \in {"e1", "e2"} : AddEmail(r, email)
    \/ \E r \in 1..MaxOrders : OrderRequestDict(r)

SpecOrderRequest == InitOrderRequest /\ [][NextOrderRequest]_vars

\* the elements of a list argument
GivenItems(arg) == IF arg = "default" THEN <<>> ELSE arg

\* C15: a request that was constructed without webhooks and without emails
\* and was given none since serialises with "webhooks" [] and "emails" [],
\* whatever was constructed before it and added to other requests.
C15_FreshRequestEmpty ==
    /\ order_dict # NotCalled
    /\ order_log[order_dict.of].W = "default"
    /\ order_log[order_dict.of].E = "default"
    /\ order_log[order_dict.of].added_webhooks = <<>>
    /\ order_log[order_dict.of].added_emails = <<>>
    => /\ order_dict.value["webhooks"] = ListVal(<<>>)
       /\ order_dict.value["emails"] = ListVal(<<>>)

\* C16: dict()["webhooks"] of a request is the webhooks it was constructed
\* with followed by those add_webhook gave it, in the order of the calls, and
\* the same for its emails; id, eula and bundleKey are those of its
\* construction.
C16_GivenThenAdded ==
    order_dict # NotCalled
    => LET log == order_log[order_dict.of]
       IN  /\ order_dict.value["webhooks"]
                 = ListVal(GivenItems(log.W) \o log.added_webhooks)
           /\ order_dict.value["emails"]
                 = ListVal(GivenItems(log.E) \o log.added_emails)
           /\ order_dict.value["id"] = StrVal(log.id)
           /\ order_dict.value["eula"] = StrVal("eula")
           /\ order_dict.value["bundleKey"] = StrVal("bundle_key")

(***************************************************************************)
(* SearchRequest, ListRequest, CollectionListItemsRequest and              *)
(* CollectionSearchRequest: one request object, its setters and its        *)
(* serialisation.  A date is written by str() as YYYY-MM-DD.               *)
(***************************************************************************)
\* d[k] = v
setitem(d, k, v) == [x \in DOMAIN d \cup {k} |-> IF x = k THEN v ELSE d[x]]

\* str(d) for a datetime.date
date_str(d) == StrVal(Date(d.year, d.month, d.day))

\* archive.py:323-351
SearchRequest_init(start, gsd, cloud, end, lat, long, north, south, east, west, supplier, off_nadir, polygon, sort_definition) ==
    [cls |-> "SearchRequest", start |-> start, cloud |-> cloud, gsd |-> gsd,
     end |-> end, lat |-> lat, long |-> long, north |-> north, south |-> south,
     east |-> east, west |-> west, supplier |-> supplier, off_nadir |-> off_nadir,
     polygon |-> polygon, sort_definition |-> sort_definition]

\* common.py:143-147
SortDefinition_dict(self) ==
    remove_none([ascending |-> self.ascending, field |-> self.field])

\* archive.py:412-443
SearchRequest_dict(self) ==
    LET d  == [start    |-> IF self.start # None THEN date_str(self.start) ELSE None,
               end      |-> IF self.end # None THEN date_str(self.end) ELSE None,
               gsd      |-> self.gsd,
               cloud    |-> self.cloud,
               offNadir |-> self.off_nadir,
               supplier |-> self.supplier]
        d1 == IF self.polygon # None
              THEN setitem(d, "polygon", self.polygon)
              ELSE IF self.north # None /\ self.east # None /\ self.west # None
                      /\ self.south # None
              THEN setitem(d, "boundingBox",
                           [north |-> self.north, east |-> self.east,
                            west |-> self.west, south |-> self.south])
              ELSE IF self.lat # None /\ self.long # None
              THEN setitem(d, "latLong", [latitude |-> self.lat, longitude |-> self.long])
              ELSE d
        d2 == IF self.sort_definition # None
              THEN setitem(d1, "sort", SortDefinition_dict(self.sort_definition))
              ELSE d1
    IN  remove_none(d2)

\* an "or" that takes its right operand for None alone
py_or_none(a, b) == IF a # None THEN a ELSE b

\* a or b: b when bool(a) is false, which it is for None and for 0
py_or(a, b) == IF a # None /\ a # IntVal(0) THEN a ELSE b

\* list.py:47-52
ListRequest_init(page, size) ==
    [cls |-> "ListRequest", page |-> py_or(page, IntVal(0)),
     size |-> py_or(size, IntVal(20))]

\* list.py:54-58: ListRequest.__dict__
ListRequest_dict(self) == [page |-> self.page, size |-> self.size]

\* collections.py:821-827, for a str
get_collection_id(collection) == collection

\* collections.py:321-337 and, with ids, intersects and queries,
\* collections.py:544-566
CollectionRequest_init(cls, collection, page, limit, bbox, start, end, datetime_, ids, intersects, queries) ==
    [cls |-> cls, collection_id |-> get_collection_id(collection), page |-> page,
     limit |-> limit, bbox |-> bbox, start |-> start, end |-> end,
     datetime |-> datetime_, ids |-> ids, intersects |-> intersects,
     queries |-> queries]

\* an interval that looks at start and end before datetime
to_interval_start_end_first(self) ==
    IF self.start # None \/ self.end # None
    THEN StrVal((IF self.start # None THEN isoformat(self.start, "T") ELSE <<".", ".">>)
                \o <<"/">>
                \o (IF self.end # None THEN isoformat(self.end, "T") ELSE <<".", ".">>))
    ELSE IF self.datetime # None THEN StrVal(isoformat(self.datetime, "T"))
    ELSE None

\* collections.py:368-374 and collections.py:580-586: _to_interval
to_interval(self) ==
    IF self.datetime # None THEN StrVal(isoformat(self.datetime, "T"))
    ELSE IF self.start # None \/ self.end # None
    THEN StrVal((IF self.start # None THEN isoformat(self.start, "T") ELSE <<".", ".">>)
                \o <<"/">>
                \o (IF self.end # None THEN isoformat(self.end, "T") ELSE <<".", ".">>))
    ELSE None

\* collections.py:399-405
CollectionListItemsRequest_dict(self) ==
    remove_none([page     |-> self.page,
                 limit    |-> self.limit,
                 bbox     |-> self.bbox,
                 datetime |-> to_interval(self)])

\* a dict, as the function from its keys
DictVal(d) == [kind |-> "dict", items |-> d]

\* collections.py:416-450: the value of a member of QueryFieldNumber or of
\* QueryFieldString
QueryField_value ==
    [gsd |-> "gsd", cloud_cover |-> "eo:cloud_cover", supplier |-> "supplier"]

\* collections.py:468-472
StringQuery_dict(self) == DictVal(remove_none([eq |-> self.eq, like |-> self.like]))

\* collections.py:666: {k.value: v.dict() for k, v in self.queries.items()}
queries_dict(queries) ==
    DictVal([v \in {QueryField_value[k] : k \in DOMAIN queries.items} |->
                StringQuery_dict(queries.items[CHOOSE k \in DOMAIN queries.items :
                                                  QueryField_value[k] = v])])

\* collections.py:659-668
CollectionSearchRequest_dict(self) ==
    remove_none([page       |-> self.page,
                 limit      |-> self.limit,
                 bbox       |-> self.bbox,
                 datetime   |-> to_interval(self),
                 ids        |-> self.ids,
                 intersects |-> self.intersects,
                 queries    |-> IF self.queries # None THEN queries_dict(self.queries)
                                ELSE None])

\* obj.dict(), or obj.__dict__() for a ListRequest
request_dict(self) ==
    CASE self.cls = "SearchRequest" -> SearchRequest_dict(self)
      [] self.cls = "ListRequest" -> ListRequest_dict(self)
      [] self.cls = "CollectionListItemsRequest" -> CollectionListItemsRequest_dict(self)
      [] self.cls = "CollectionSearchRequest" -> CollectionSearchRequest_dict(self)

\* the values the arguments are drawn from: None, and numbers 0 included
RequestArgs ==
    [ numbers     |-> {None, IntVal(0), IntVal(2)},
      coordinates |-> {None, IntVal(0)},
      polygons    |-> {None, ListVal(<<>>), ListVal(<<IntVal(0)>>)},
      moments     |->
        { None,
          datetime(2023, 1, 2, 3, 4, 5, 6, timezone(timedelta(0, 0)).value).value,
          datetime(2024, 2, 29, 0, 0, 0, 0, timezone(timedelta(10, 0)).value).value } ]

InitRequests ==
    /\ IdleExcept("requests")
    /\ req_out = NotCalled
    /\ \/ \E start \in {None, [kind |-> "date", year |-> 2021, month |-> 1, day |-> 1]},
             gsd \in RequestArgs.numbers, cloud \in RequestArgs.coordinates, supplier \in {None, StrVal("")},
             lat \in RequestArgs.coordinates, long \in RequestArgs.coordinates,
             north \in RequestArgs.coordinates, south \in RequestArgs.coordinates,
             east \in RequestArgs.coordinates, west \in RequestArgs.coordinates, polygon \in RequestArgs.polygons,
             sort_definition \in {None, [ascending |-> [kind |-> "bool", v |-> TRUE],
                                      field |-> StrVal("date")]} :
          /\ req = SearchRequest_init(start, gsd, cloud, None, lat, long, north, south,
                                      east, west, supplier, None, polygon,
                                      sort_definition)
          /\ req_given = <<start, gsd>>
       \/ \E page \in RequestArgs.numbers, size \in RequestArgs.numbers :
          /\ req = ListRequest_init(page, size)
          /\ req_given = <<page, size>>
       \/ \E cls \in {"CollectionListItemsRequest", "CollectionSearchRequest"},
             start \in RequestArgs.moments, end \in RequestArgs.moments, datetime_ \in RequestArgs.moments,
             bbox \in {None, ListVal(<<0, 0, 1, 1>>)} :
          /\ req = CollectionRequest_init(cls, "collection", IntVal(0), IntVal(100),
                                          bbox, start, end, datetime_, None, None, None)
          /\ req_given = <<"collection">>

\* archive.py:353-356
SetPointOfInterest(lat, long) ==
    /\ req.cls = "SearchRequest"
    /\ req' = [req EXCEPT !.lat = lat, !.long = long]
    /\ req_out' = NotCalled
    /\ UNCHANGED req_given
    /\ UnchangedExcept("requests")

\* archive.py:358-363
SetAreaOfInterest(north, south, east, west) ==
    /\ req.cls = "SearchRequest"
    /\ req' = [req EXCEPT !.north = north, !.south = south, !.west = west,
                          !.east = east]
    /\ req_out' = NotCalled
    /\ UNCHANGED req_given
    /\ UnchangedExcept("requests")

\* archive.py:365-367
SetPolygon(polygon) ==
    /\ req.cls = "SearchRequest"
    /\ req' = [req EXCEPT !.polygon = polygon]
    /\ req_out' = NotCalled
    /\ UNCHANGED req_given
    /\ UnchangedExcept("requests")

\* collections.py:356-358 and collections.py:622-624
SetDatetime(datetime_) ==
    /\ req.cls \in {"CollectionListItemsRequest", "CollectionSearchRequest"}
    /\ req' = [req EXCEPT !.datetime = datetime_]
    /\ req_out' = NotCalled
    /\ UNCHANGED req_given
    /\ UnchangedExcept("requests")

\* req.dict(), or req.__dict__() for a ListRequest
RequestDict ==
    /\ req_out' = [kind |-> "return", method |-> "dict", value |-> request_dict(req)]
    /\ UNCHANGED <<req, req_given>>
    /\ UnchangedExcept("requests")

\* req._to_interval()
ToInterval ==
    /\ req.cls \in {"CollectionListItemsRequest", "CollectionSearchRequest"}
    /\ req_out' = [kind |-> "return", method |-> "_to_interval",
                   value |-> to_interval(req)]
    /\ UNCHANGED <<req, req_given>>
    /\ UnchangedExcept("requests")

NextRequests ==
    \/ \E lat \in RequestArgs.coordinates \ {None}, long \in RequestArgs.coordinates \ {None} :
          SetPointOfInterest(lat, long)
    \/ \E c \in RequestArgs.coordinates \ {None} : SetAreaOfInterest(c, c, c, c)
    \/ \E polygon \in RequestArgs.polygons \ {None} : SetPolygon(polygon)
    \/ \E datetime_ \in RequestArgs.moments \ {None} : SetDatetime(datetime_)
    \/ RequestDict
    \/ ToInterval

SpecRequests == InitRequests /\ [][NextRequests]_vars

\* the latest call on a request of one of these classes was dict()
DictOf(classes) ==
    req_out # NotCalled /\ req_out.method = "dict" /\ req.cls \in classes

AreaSet == req.north # None /\ req.south # None /\ req.east # None /\ req.west # None

PointSet == req.lat # None /\ req.long # None

\* C17: SearchRequest.dict() has "polygon" when a polygon is set; otherwise
\* "boundingBox" when north, south, east and west are all set; otherwise
\* "latLong" when lat and long are both set; it never has two of the three.
\* A field that is None has no key, and a field that is not None has its key,
\* also when it is 0, an empty list or an empty string.
C17_OneGeometryNoNone ==
    DictOf({"SearchRequest"})
    => LET d == req_out.value
           K == DOMAIN d
       IN  /\ Cardinality(K \cap {"polygon", "boundingBox", "latLong"}) <= 1
           /\ "polygon" \in K <=> req.polygon # None
           /\ "boundingBox" \in K <=> req.polygon = None /\ AreaSet
           /\ "latLong" \in K <=> req.polygon = None /\ ~AreaSet /\ PointSet
           /\ \A k \in K : d[k] # None
           /\ "gsd" \in K <=> req.gsd # None
           /\ "cloud" \in K <=> req.cloud # None
           /\ "supplier" \in K <=> req.supplier # None
           /\ "start" \in K <=> req.start # None
           /\ "gsd" \in K => d["gsd"] = req.gsd
           /\ "polygon" \in K => d["polygon"] = req.polygon

\* a request with the three geometries set and a gsd of 0 serialised with the
\* polygon alone, the gsd kept and the cloud cover, which is None, left out
C17_Witness ==
    /\ DictOf({"SearchRequest"})
    /\ req.polygon = ListVal(<<>>) /\ AreaSet /\ PointSet
    /\ req.gsd = IntVal(0) /\ req.cloud = None
    /\ "polygon" \in DOMAIN req_out.value
    /\ "boundingBox" \notin DOMAIN req_out.value
    /\ req_out.value["gsd"] = IntVal(0)
    /\ "cloud" \notin DOMAIN req_out.value

\* what the constructor's words "missing or 0" give for an argument
OrDefault(arg, default) == IF arg = None \/ arg = IntVal(0) THEN default ELSE arg

\* C18: ListRequest(page, size).__dict__() is {"page": p, "size": s}: p is the
\* page given, or 0 when none or 0 is given; s is the size given, or 20 when
\* none or 0 is given.
C18_ListDefaults ==
    DictOf({"ListRequest"})
    => req_out.value = [page |-> OrDefault(req_given[1], IntVal(0)),
                        size |-> OrDefault(req_given[2], IntVal(20))]

\* ListRequest(0, 0).__dict__() returned page 0 and size 20
C18_Witness ==
    /\ DictOf({"ListRequest"})
    /\ req_given = <<IntVal(0), IntVal(0)>>
    /\ req_out.value = [page |-> IntVal(0), size |-> IntVal(20)]

\* the ISO form of a moment, or ".." for None
IsoOrDots(moment) == IF moment = None THEN <<".", ".">> ELSE isoformat(moment, "T")

\* the interval of the claim
Interval ==
    IF req.datetime # None THEN StrVal(isoformat(req.datetime, "T"))
    ELSE IF req.start = None /\ req.end = None THEN None
    ELSE StrVal(IsoOrDots(req.start) \o <<"/">> \o IsoOrDots(req.end))

\* C19: _to_interval of a CollectionListItemsRequest or a
\* CollectionSearchRequest returns the ISO form of datetime when datetime is
\* set, whatever start and end are; otherwise "S/E" when start or end is set,
\* with ".." for the one that is missing; otherwise None.  dict() has a
\* "datetime" key exactly when that result is not None.
C19_Interval ==
    /\ req_out # NotCalled /\ req_out.method = "_to_interval"
           => req_out.value = Interval
    /\ DictOf({"CollectionListItemsRequest", "CollectionSearchRequest"})
           => /\ "datetime" \in DOMAIN req_out.value <=> Interval # None
              /\ "datetime" \in DOMAIN req_out.value
                    => req_out.value["datetime"] = Interval

\* a request with datetime, start and end set returned the ISO form of
\* datetime
C19_Witness ==
    /\ req_out # NotCalled /\ req_out.method = "_to_interval"
    /\ req.datetime # None /\ req.start # None /\ req.end # None
    /\ req.start # req.datetime
    /\ req_out.value = StrVal(isoformat(req.datetime, "T"))

(***************************************************************************)
(* The API classes.  A request method issues one HTTP request, checks the  *)
(* status of the response and parses its body.  A response is its          *)
(* status_code and its text; the text is a JSON document (the value that   *)
(* json.loads gives for it) or some other text.                            *)
(***************************************************************************)
\* exception.py:14-17: raise ArlulaAPIException(response)
ArlulaAPIException(response) ==
    [kind     |-> "raise",
     exc      |-> "ArlulaAPIException",
     value    |-> <<response.status_code, ": ", response.text>>,
     response |-> response]

\* json.loads(s)
json_loads(s) ==
    IF s.kind = "json" THEN Return(s.value) ELSE Raise("JSONDecodeError")

\* list.py:25-30: ListResponse(data, content), content the outcome of the
\* list comprehension that built the items
ListResponse(data, content) ==
    IF content.kind = "raise" THEN content
    ELSE IF {"page", "length", "count"} \subseteq DOMAIN data
    THEN Return([kind  |-> "object",
                 cls   |-> "ListResponse",
                 data  |-> data,
                 attrs |-> [data    |-> data,
                            content |-> content.value,
                            page    |-> data["page"],
                            length  |-> data["length"],
                            count   |-> data["count"]]])
    ELSE Raise("KeyError")

\* what a method does with a response whose status is 200
Returns(how, of) == [how |-> how, of |-> of]

\* orders.py:34-330: the request methods of OrdersAPI.
\*   list     ListResponse(d, [of(c) for c in d["content"]]), d the body
\*   entity   of(json.loads(response.text))
\*   file     the file the body was written to
\*   download of(json.loads(response.text)), then a request for each of its
\*            resources, and nothing
\*   content  response.content
\*   none     nothing
OrdersAPI ==
    [ list_orders                 |-> Returns("list", "Order"),
      list_datasets               |-> Returns("list", "Dataset"),
      list_campaigns              |-> Returns("list", "Campaign"),
      list_order_campaigns        |-> Returns("list", "Campaign"),
      list_order_datasets         |-> Returns("list", "Dataset"),
      list_campaign_datasets      |-> Returns("list", "Dataset"),
      get_order                   |-> Returns("entity", "Order"),
      get_campaign                |-> Returns("entity", "Campaign"),
      get_dataset                 |-> Returns("entity", "Dataset"),
      get_resource                |-> Returns("entity", "Resource"),
      download_dataset            |-> Returns("download", "Dataset"),
      download_resource_as_file   |-> Returns("file", ""),
      download_resource_as_memory |-> Returns("content", "") ]

\* archive.py:616-671
ArchiveAPI ==
    [ search      |-> Returns("entity", "SearchResponse"),
      order       |-> Returns("entity", "Order"),
      batch_order |-> Returns("entity", "Order") ]

\* tasking.py:642-696
TaskingAPI ==
    [ search      |-> Returns("entity", "TaskingSearchResponse"),
      order       |-> Returns("entity", "Order"),
      batch_order |-> Returns("entity", "Order") ]

\* collections.py:849-1067
CollectionsAPI ==
    [ list                |-> Returns("entity", "CollectionListResponse"),
      detail              |-> Returns("entity", "Collection"),
      list_items          |-> Returns("entity", "CollectionListItemsResponse"),
      get_item            |-> Returns("entity", "CollectionItem"),
      search_items        |-> Returns("entity", "CollectionSearchResponse"),
      import_order        |-> Returns("none", ""),
      remove_item         |-> Returns("none", ""),
      create              |-> Returns("entity", "Collection"),
      update              |-> Returns("entity", "Collection"),
      delete              |-> Returns("none", ""),
      request_access_item |-> Returns("none", ""),
      conformance         |-> Returns("entity", "CollectionConformanceResponse") ]

\* the body of a request method from the response on: the status check,
\* then the parsing of the body
request(returns, response) ==
    IF response.status_code # 200 THEN ArlulaAPIException(response)
    ELSE CASE returns.how = "none" -> Return(None)
           [] returns.how = "content" ->
                Return([kind |-> "bytes", of |-> response.text])
           [] returns.how = "file" ->
                Return([kind |-> "file", position |-> 0,
                        content |-> [kind |-> "bytes", of |-> response.text]])
           [] returns.how \in {"entity", "download"} ->
                LET d == json_loads(response.text)
                IN  IF d.kind = "raise" THEN d ELSE new(returns.of, d.value)
           [] returns.how = "list" ->
                LET d == json_loads(response.text)
                IN  IF d.kind = "raise" THEN d
                    ELSE IF "content" \notin DOMAIN d.value THEN Raise("KeyError")
                    ELSE ListResponse(d.value,
                             AllOrFirstRaise([i \in 1..Len(d.value["content"]) |->
                                 new(returns.of, d.value["content"][i])]))

\* orders.py:242-243: download_resource_as_file for each resource of the
\* dataset that get_dataset gave, each of them a request of its own
download_resources(dataset, responses) ==
    IF dataset.kind = "raise" THEN dataset
    ELSE LET resources == dataset.value.attrs["resources"]
             files == AllOrFirstRaise([i \in 1..Len(resources) |->
                          IF responses[1 + i].status_code # 200
                          THEN ArlulaAPIException(responses[1 + i])
                          ELSE Return(None)])
         IN  IF files.kind = "raise" THEN files ELSE Return(None)

\* a request method, from the response to its first request on
method(returns, responses) ==
    LET rest(first) == IF returns.how = "download"
                       THEN download_resources(first, responses)
                       ELSE first
    IN  rest(request(returns, responses[1]))

\* the API classes
api_classes ==
    [ OrdersAPI      |-> OrdersAPI,
      ArchiveAPI     |-> ArchiveAPI,
      TaskingAPI     |-> TaskingAPI,
      CollectionsAPI |-> CollectionsAPI ]

\* the statuses of the server
Statuses == {200, 400, 401, 403, 404, 500}

\* a complete body of each class that is not among those of payload_of
body_of ==
    LET stamp == BaseDate \o <<"T">> \o BaseTime \o <<"Z">>
        link  == [href |-> "url", rel |-> "self", type |-> "application/json"]
        asset == [href |-> "url", type |-> "image/jpeg", roles |-> <<"thumbnail">>]
        collection ==
          [ id |-> "col-1", type |-> "Collection", stac_version |-> "1.0.0",
            title |-> "t", description |-> "d", keywords |-> <<"k">>,
            license |-> "proprietary",
            providers |-> << [name |-> "p", roles |-> <<"host">>, url |-> "url"] >>,
            extent |-> [spatial  |-> [bbox |-> << <<-34, 150, -33, 151>> >>],
                        temporal |-> [interval |-> << [start |-> stamp] >>]],
            assets |-> [thumbnail |-> asset],
            links |-> <<link>> ]
        item ==
          [ type |-> "Feature", stac_version |-> "1.0.0",
            stac_extensions |-> <<>>, id |-> "item-1",
            bbox |-> <<-34, 150, -33, 151>>, geometry |-> <<>>,
            properties |-> <<>>, assets |-> [thumbnail |-> asset],
            links |-> <<link>> ]
    IN
    [ SearchResponse |->
        [state |-> "complete", warnings |-> <<"w">>,
         results |-> <<payload_of["SearchResult"]>>],
      TaskingSearchResponse |->
        [results |-> <<>>, errors |-> <<>>],
      Collection |-> collection,
      CollectionItem |-> item,
      CollectionListResponse |->
        [collections |-> <<collection>>, links |-> <<link>>,
         context |-> [page |-> 0, limit |-> 100, matched |-> 1]],
      CollectionListItemsResponse |->
        [type |-> "FeatureCollection", features |-> <<item>>,
         links |-> <<link>>, timeStamp |-> stamp, numberMatched |-> 1],
      CollectionSearchResponse |->
        [type |-> "FeatureCollection", stac_version |-> "1.0.0",
         stac_extensions |-> <<>>, context |-> [limit |-> 100, matched |-> 1],
         numberMatched |-> 1, numberReturned |-> 1, links |-> <<link>>,
         features |-> <<item>>],
      CollectionConformanceResponse |->
        [conformsTo |-> <<"core">>] ]

\* the responses a method may get, in the order of its requests: any status,
\* and a body of what the method asks for (an empty page and a page of one,
\* for a list; a dataset of one resource and the data of that resource, for
\* download_dataset)
Responses(returns) ==
    LET body(cls) == IF cls \in DOMAIN payload_of THEN payload_of[cls] ELSE body_of[cls]
        page(content) == [page |-> 0, length |-> 20, count |-> Len(content),
                          content |-> content]
        data == { [kind |-> "text", value |-> "bytes"] }
        texts ==
          CASE returns.how \in {"entity", "download"} ->
                 { [kind |-> "json", value |-> body(returns.of)] }
            [] returns.how = "list" ->
                 { [kind |-> "json", value |-> page(<<>>)],
                   [kind |-> "json", value |-> page(<<body(returns.of)>>)] }
            [] returns.how \in {"file", "content"} -> data
            [] returns.how = "none" -> { [kind |-> "text", value |-> ""] }
        errors == { [kind |-> "text", value |-> "Unauthorized"],
                    [kind |-> "json", value |-> [message |-> "bad request"]] }
        given(ts) ==
          { [status_code |-> 200, text |-> t] : t \in ts }
            \cup { [status_code |-> s, text |-> t] : s \in Statuses \ {200}, t \in errors }
    IN  IF returns.how = "download"
        THEN { <<r1, r2>> : r1 \in given(texts), r2 \in given(data) }
        ELSE { <<r>> : r \in given(texts) }

\* the calls: a method of an API class with the responses to its requests
InitApi ==
    /\ IdleExcept("api")
    /\ api_out = NotCalled
    /\ \E api \in DOMAIN api_classes :
          \E m \in DOMAIN api_classes[api] :
             /\ api_call = [api |-> api, method |-> m]
             /\ api_responses \in Responses(api_classes[api][m])

\* a call of a method of the API class
Request(api) ==
    /\ api_out = NotCalled
    /\ api_call.api = api
    /\ api_out' = method(api_classes[api][api_call.method], api_responses)
    /\ UNCHANGED <<api_call, api_responses>>
    /\ UnchangedExcept("api")

NextApi == \E api \in DOMAIN api_classes : Request(api)

SpecApi == InitApi /\ [][NextApi]_vars

\* the response whose status decided the outcome of a call: the first one
\* that is not 200, or the last one
Decisive ==
    LET bad == {i \in 1..Len(api_responses) : api_responses[i].status_code # 200}
    IN  api_responses[IF bad = {} THEN Len(api_responses)
                      ELSE CHOOSE i \in bad : \A j \in bad : i <= j]

\* C20: every request method of OrdersAPI, ArchiveAPI, TaskingAPI and
\* CollectionsAPI raises ArlulaAPIException exactly when the status of the
\* response is not 200, the exception carrying the response received; when
\* the status is 200 the method returns and raises nothing
C20_RaisesIffNot200 ==
    api_out # NotCalled =>
        /\ Decisive.status_code # 200 <=> api_out = ArlulaAPIException(Decisive)
        /\ Decisive.status_code = 200 => api_out.kind = "return"

(***************************************************************************)
(* OrdersAPI.download_resource_as_file.  The body of a response is a       *)
(* sequence of bytes; iter_content gives it chunk by chunk, each chunk at   *)
(* most chunk_size bytes long.                                             *)
(***************************************************************************)
\* \w of a pattern, for ASCII
WordChars ==
    { "a", "b", "c", "d", "e", "f", "g", "h", "i", "j", "k", "l", "m", "n",
      "o", "p", "q", "r", "s", "t", "u", "v", "w", "x", "y", "z",
      "A", "B", "C", "D", "E", "F", "G", "H", "I", "J", "K", "L", "M", "N",
      "O", "P", "Q", "R", "S", "T", "U", "V", "W", "X", "Y", "Z",
      "0", "1", "2", "3", "4", "5", "6", "7", "8", "9", "_" }

\* orders.py:22: where a match of "([\w\.]+)" that starts at i ends, or 0
disposition_name_match(s, i) ==
    LET stops == {k \in (i + 1)..Len(s) : s[k] \notin WordChars \cup {"."}}
        stop  == IF stops = {} THEN Len(s) + 1
                 ELSE CHOOSE k \in stops : \A j \in stops : k <= j
    IN  IF /\ s[i] = "\""
           /\ stop > i + 1
           /\ stop <= Len(s)
           /\ s[stop] = "\""
        THEN stop ELSE 0

RECURSIVE findall_from(_, _)
\* the groups of the matches from position i on, from left to right, none
\* overlapping another
findall_from(s, i) ==
    LET starts == {k \in i..Len(s) : disposition_name_match(s, k) # 0}
        k      == CHOOSE x \in starts : \A y \in starts : x <= y
        stop   == disposition_name_match(s, k)
    IN  IF starts = {} THEN <<>>
        ELSE <<SubSeq(s, k + 1, stop - 1)>> \o findall_from(s, stop + 1)

\* disposition_name_regex.findall(string)
disposition_name_regex_findall(string) ==
    IF string = None THEN Raise("TypeError")
    ELSE Return(findall_from(string.v, 1))

\* os.path.join(a, p) of posixpath
os_path_join(a, p) ==
    IF p # <<>> /\ p[1] = "/" THEN p
    ELSE IF a = <<>> \/ a[Len(a)] = "/" THEN a \o p
    ELSE a \o <<"/">> \o p

\* os.getcwd()
os_getcwd == <<"/", "w">>

\* orders.py:274-279: the path when none is given
default_filepath(response, directory) ==
    IF Len(response.history) = 0 THEN Raise("IndexError")
    ELSE LET content_disposition == response.history[1].headers.content_disposition
             names == disposition_name_regex_findall(content_disposition)
             dir   == IF directory # None /\ directory.v # <<>>
                      THEN directory.v ELSE os_getcwd
         IN  IF names.kind = "raise" THEN names
             ELSE IF names.value = <<>> THEN Raise("IndexError")
             ELSE Return(os_path_join(dir, names.value[1]))

\* int(x) for a float x that is not negative
int_of_float(x) ==
    IF x.e >= 0 THEN ValOf(ShiftL(x.m, x.e))
    ELSE IF -(x.e) >= Len(x.m) THEN 0
    ELSE ValOf(SubSeq(x.m, 1 - x.e, Len(x.m)))

\* orders.py:291: max(int(total/1000), 1024*1024); the quotient of the
\* floats, cut off, is that of the ints for a total below 2^53
chunk_size(total) ==
    IF total \div 1000 > 1024 * 1024 THEN total \div 1000 ELSE 1024 * 1024

\* the events of a call
Event(kind, value) == [kind |-> kind, value |-> value]

\* the longest body
MaxBody == 3

\* a body of n bytes
Body(n) == [i \in 1..n |-> IF i % 2 = 1 THEN "a" ELSE "b"]

\* str(n) for an n below 10
Digit(n) == <<DigitChars[n + 1]>>

\* the calls: with and without a filepath, a directory and a generator; the
\* responses: a status, a body, its length or one near it in content-length
\* or no content-length, and the redirects before it, the first of them with a
\* content-disposition or without
InitDownload ==
    LET paths == {None, StrVal(<<"/", "t", "/", "f">>)}
        dirs  == {None, StrVal(<<"/", "d">>), StrVal(<<"/", "d", "/">>)}
        param == <<"f", "i", "l", "e", "n", "a", "m", "e", "=">>
        dispositions ==
          { None,
            StrVal(param \o <<"\"", "a", ".", "b", "\"">>),
            StrVal(param \o <<"\"", "a", "-", "b", "\"">>),
            StrVal(param \o <<"a", ".", "b">>),
            StrVal(<<"x", "=", "\"", "y", "\"", ";">> \o param \o <<"\"", "a", "_", "1", "\"">>) }
        histories ==
          {<<>>} \cup {<<[headers |-> [content_disposition |-> d]]>> : d \in dispositions}
        lengths(n) == {None, StrVal(Digit(n)), StrVal(Digit(n + 1))}
                        \cup (IF n >= 2 THEN {StrVal(Digit(n - 1))} ELSE {})
    IN  /\ IdleExcept("download")
        /\ \E filepath \in paths, directory \in dirs, suppress \in BOOLEAN,
              progress \in BOOLEAN :
              dl_args = [filepath |-> filepath, directory |-> directory,
                         suppress |-> suppress, progress_generator |-> progress]
        /\ \E status \in {200, 404}, n \in 0..MaxBody, history \in histories :
              \E total \in lengths(n) :
                 dl_response = [status_code |-> status,
                                text        |-> [kind |-> "text", value |-> Body(n)],
                                headers     |-> [content_length |-> total],
                                history     |-> history]
        /\ dl_pc = "start"
        /\ dl_local = None
        /\ dl_file = None
        /\ dl_log = <<>>
        /\ dl_out = NotCalled

\* orders.py:259-284: to the request, the status check, the choice of the
\* path and the opening of the file
Begin ==
    LET advanced == IF dl_args.progress_generator
                    THEN <<Event("next", None)>> ELSE <<>>
        requested == advanced \o <<Event("request", None)>>
        path == IF dl_args.filepath = None
                THEN default_filepath(dl_response, dl_args.directory)
                ELSE Return(dl_args.filepath.v)
        total == dl_response.headers.content_length
    IN  /\ dl_pc = "start"
        /\ dl_log' = requested
        /\ IF dl_response.status_code # 200
           THEN /\ dl_out' = ArlulaAPIException(dl_response)
                /\ dl_pc' = "done"
                /\ UNCHANGED <<dl_local, dl_file>>
           ELSE IF path.kind = "raise"
           THEN /\ dl_out' = path
                /\ dl_pc' = "done"
                /\ UNCHANGED <<dl_local, dl_file>>
           ELSE /\ dl_file' = [path |-> path.value, content |-> <<>>,
                               position |-> 0, closed |-> FALSE]
                /\ dl_local' = [filepath   |-> path.value,
                                total      |-> IF total = None THEN None
                                               ELSE IntVal(int(total.v)),
                                downloaded |-> 0,
                                rest       |-> dl_response.text.value]
                /\ dl_pc' = IF total = None THEN "content" ELSE "chunks"
                /\ dl_out' = dl_out
        /\ UNCHANGED <<dl_args, dl_response>>
        /\ UnchangedExcept("download")

\* f.write(data)
file_write(f, data) ==
    [f EXCEPT !.content = SubSeq(f.content, 1, f.position) \o data
                            \o SubSeq(f.content, f.position + Len(data) + 1,
                                      Len(f.content)),
              !.position = f.position + Len(data)]

\* a generator that is sent a hundredth of the percentage
progress_sent_percent(progress_generator, downloaded, total) ==
    IF progress_generator
    THEN <<Event("send", int_truediv(int_of_float(int_truediv(100 * downloaded, total)), 100))>>
    ELSE <<>>

\* orders.py:303-304: progress_generator.send(downloaded/total)
progress_sent(progress_generator, downloaded, total) ==
    IF progress_generator
    THEN <<Event("send", int_truediv(downloaded, total))>>
    ELSE <<>>

\* orders.py:286-287: no content-length, the whole body at once
WriteContent ==
    /\ dl_pc = "content"
    /\ dl_file' = file_write(dl_file, dl_local.rest)
    /\ dl_log' = Append(dl_log, Event("write", dl_local.rest))
    /\ dl_local' = [dl_local EXCEPT !.rest = <<>>]
    /\ dl_pc' = "finish"
    /\ UNCHANGED <<dl_args, dl_response, dl_out>>
    /\ UnchangedExcept("download")

\* orders.py:291-304: one turn of the loop over the chunks
WriteChunk ==
    /\ dl_pc = "chunks"
    /\ dl_local.rest # <<>>
    /\ \E n \in 1..Len(dl_local.rest) :
          LET data       == SubSeq(dl_local.rest, 1, n)
              total      == dl_local.total.v
              downloaded == dl_local.downloaded + Len(data)
              done       == int_of_float(int_truediv(50 * downloaded, total))
              written    == <<Event("write", data)>>
              shown      == IF dl_args.suppress THEN <<>>
                            ELSE <<Event("stdout", IntVal(done))>>
              sent       == progress_sent(dl_args.progress_generator, downloaded, total)
          IN  /\ n <= chunk_size(total)
              /\ dl_file' = file_write(dl_file, data)
              /\ dl_local' = [dl_local EXCEPT
                                 !.downloaded = downloaded,
                                 !.rest = SubSeq(dl_local.rest, n + 1, Len(dl_local.rest))]
              /\ IF total = 0
                 THEN /\ dl_log' = dl_log \o written
                      /\ dl_out' = Raise("ZeroDivisionError")
                      /\ dl_pc' = "done"
                 ELSE /\ dl_log' = dl_log \o written \o shown \o sent
                      /\ UNCHANGED <<dl_out, dl_pc>>
    /\ UNCHANGED <<dl_args, dl_response>>
    /\ UnchangedExcept("download")

\* orders.py:306-313: after the body, the last lines on stdout, f.seek(0) and
\* the return of f
Finish ==
    /\ \/ dl_pc = "finish"
       \/ dl_pc = "chunks" /\ dl_local.rest = <<>>
    /\ dl_log' = IF dl_args.suppress THEN dl_log
                 ELSE dl_log \o <<Event("stdout", StrVal("\n")),
                                  Event("stdout", StrVal("download complete\n"))>>
    /\ dl_file' = [dl_file EXCEPT !.position = 0]
    /\ dl_out' = Return([kind |-> "file", path |-> dl_file.path])
    /\ dl_pc' = "done"
    /\ UNCHANGED <<dl_args, dl_response, dl_local>>
    /\ UnchangedExcept("download")

NextDownload == Begin \/ WriteContent \/ WriteChunk \/ Finish

SpecDownload == InitDownload /\ [][NextDownload]_vars

\* the call has ended, and its response had the status 200
Downloaded == dl_pc = "done" /\ dl_response.status_code = 200

\* the call has returned the file f
ReturnedFile == dl_file # None /\ dl_out = Return([kind |-> "file", path |-> dl_file.path])

\* C21: on a 200 response download_resource_as_file returns an open file at
\* offset 0 whose content is the bytes of the response body in the order
\* received, with a content-length (written chunk by chunk) and without
C21_FileHoldsBody ==
    Downloaded =>
        /\ ReturnedFile
        /\ ~dl_file.closed
        /\ dl_file.position = 0
        /\ dl_file.content = dl_response.text.value

\* the value of the filename parameter of a content-disposition: a quoted
\* string or a token
FilenameParam(s) ==
    LET param  == <<"f", "i", "l", "e", "n", "a", "m", "e", "=">>
        at     == CHOOSE i \in 1..Len(s) :
                      /\ i + Len(param) - 1 <= Len(s)
                      /\ SubSeq(s, i, i + Len(param) - 1) = param
        from   == at + Len(param)
        quoted == from <= Len(s) /\ s[from] = "\""
        first  == IF quoted THEN from + 1 ELSE from
        ends   == {k \in first..Len(s) : s[k] = (IF quoted THEN "\"" ELSE ";")}
        last   == IF ends = {} THEN Len(s)
                  ELSE (CHOOSE k \in ends : \A j \in ends : k <= j) - 1
    IN  SubSeq(s, first, last)

\* the file of that name in the directory
Placed(dir, name) ==
    IF dir[Len(dir)] = "/" THEN dir \o name ELSE dir \o <<"/">> \o name

\* C22: with a filepath the data is written to exactly filepath, whatever the
\* directory; without one, and for every 200 response whose first redirect
\* carries a content-disposition, the file has the name the supplier gave
\* there and is placed in the directory given, or in the current working
\* directory when none is given
C22_TargetPath ==
    Downloaded =>
        /\ dl_args.filepath # None =>
               /\ ReturnedFile
               /\ dl_file.path = dl_args.filepath.v
        /\ /\ dl_args.filepath = None
           /\ Len(dl_response.history) > 0
           /\ dl_response.history[1].headers.content_disposition # None
           => /\ ReturnedFile
              /\ dl_file.path =
                   Placed(IF dl_args.directory = None THEN os_getcwd
                          ELSE dl_args.directory.v,
                          FilenameParam(dl_response.history[1].headers.content_disposition.v))

\* the places of the events of a kind in the log
Places(kind) == {i \in 1..Len(dl_log) : dl_log[i].kind = kind}

\* the bytes written to the file before place k of the log
WrittenBefore(k) ==
    Cardinality({<<i, j>> \in (1..k) \X (1..MaxBody) :
                    i \in Places("write") /\ i < k /\ j <= Len(dl_log[i].value)})

\* a <= b for two natural numbers in bits, the lowest bit first
BitsLE(a, b) ==
    LET x == Trim(a)
        y == Trim(b)
        differ == {i \in 1..Len(x) : Len(x) = Len(y) /\ x[i] # y[i]}
    IN  \/ Len(x) < Len(y)
        \/ /\ Len(x) = Len(y)
           /\ \/ differ = {}
              \/ x[CHOOSE i \in differ : \A j \in differ : j <= i] = 0

\* x <= y for two floats that are not negative
FloatLE(x, y) ==
    LET e == IF x.e < y.e THEN x.e ELSE y.e
    IN  BitsLE(ShiftL(x.m, x.e - e), ShiftL(y.m, y.e - e))

\* C28: a progress generator that is given is advanced exactly once, before
\* the request is issued; with a content-length it is then sent one value
\* for each chunk, after the chunk is written, the bytes downloaded so far
\* divided by the content-length; the values never decrease, and the last is
\* 1 when the body is as long as the content-length says; without a
\* content-length, and without a generator, nothing is sent
C28_ProgressProtocol ==
    dl_pc # "start" =>
        /\ dl_args.progress_generator =>
               /\ Cardinality(Places("next")) = 1
               /\ \A i \in Places("next"), j \in Places("request") : i < j
        /\ ~dl_args.progress_generator => Places("next") \cup Places("send") = {}
        /\ dl_response.headers.content_length = None => Places("send") = {}
        /\ /\ dl_args.progress_generator
           /\ dl_response.headers.content_length # None
           => /\ \A i \in Places("write") :
                    \E k \in Places("send") :
                        /\ i < k
                        /\ \A j \in (i + 1)..(k - 1) : dl_log[j].kind = "stdout"
              /\ \A k \in Places("send") :
                    /\ \E i \in Places("write") :
                          /\ i < k
                          /\ \A j \in (i + 1)..(k - 1) : dl_log[j].kind = "stdout"
                    /\ dl_log[k].value =
                         int_truediv(WrittenBefore(k), int(dl_response.headers.content_length.v))
              /\ \A k1, k2 \in Places("send") :
                    k1 < k2 => FloatLE(dl_log[k1].value, dl_log[k2].value)
              /\ /\ dl_pc = "done"
                 /\ Places("send") # {}
                 /\ int(dl_response.headers.content_length.v) = Len(dl_response.text.value)
                 => LET last == dl_log[CHOOSE k \in Places("send") :
                                          \A j \in Places("send") : j <= k].value
                    IN  FloatLE(last, float_of_int(1)) /\ FloatLE(float_of_int(1), last)

\* a generator was sent a value for each of two chunks or more, the last of
\* them 1, and the call returned the file
C28_Witness ==
    /\ dl_pc = "done"
    /\ ReturnedFile
    /\ dl_args.progress_generator
    /\ Cardinality(Places("send")) >= 2
    /\ int(dl_response.headers.content_length.v) = Len(dl_response.text.value)

(***************************************************************************)
(* SearchResult.calculate_price                                            *)
(***************************************************************************)
\* archive.py:180-187: the loops keep the last item whose attribute has
\* the value, and None when there is none
last_with(items, attribute, value) ==
    LET hits == {i \in 1..Len(items) : items[i][attribute] = value}
    IN  IF hits = {} THEN None
        ELSE items[CHOOSE i \in hits : \A j \in hits : j <= i]

\* a wrapper that prices a bundle without a license as it is
SearchResult_calculate_price_unlicensed(self, license_href, bundle_key) ==
    LET bundle  == last_with(self.bundles, "key", bundle_key)
        license == last_with(self.licenses, "href", license_href)
    IN  IF bundle = None THEN Raise("ValueError")
        ELSE IF license = None
        THEN Return(calculate_price(bundle.price, 0, 0, 0, 0, 0, 0))
        ELSE Return(calculate_price(bundle.price, license.loading_percent,
                                    license.loading_amount, 0, 0, 0, 0))

\* archive.py:174-196
SearchResult_calculate_price(self, license_href, bundle_key) ==
    LET bundle  == last_with(self.bundles, "key", bundle_key)
        license == last_with(self.licenses, "href", license_href)
    IN  IF bundle = None THEN Raise("ValueError")
        ELSE IF license = None THEN Raise("ValueError")
        ELSE Return(calculate_price(bundle.price, license.loading_percent,
                                    license.loading_amount, 0, 0, 0, 0))

\* the most bundles, and the most licenses, of a search result
MaxOffers == 2

\* common.py:112-117 and common.py:39-44: the bundles and licenses of a result
InitResult ==
    LET Bundles  == [key : {"default", "premium"}, price : {1000, 2500}]
        Licenses == {[href |-> h, loading_percent |-> l[1], loading_amount |-> l[2]] :
                        h \in {"h1", "h2"}, l \in {<<0, 0>>, <<12, 100>>}}
        upto(S)  == UNION {[1..n -> S] : n \in 0..MaxOffers}
    IN  /\ IdleExcept("result")
        /\ sr_self \in [bundles : upto(Bundles), licenses : upto(Licenses)]
        /\ sr_args \in [license_href : {"h1", "h2"}, bundle_key : {"default", "premium"}]
        /\ sr_out = NotCalled

\* result.calculate_price(license_href, bundle_key)
ResultCalculatePrice ==
    /\ sr_out = NotCalled
    /\ sr_out' = SearchResult_calculate_price(sr_self, sr_args.license_href, sr_args.bundle_key)
    /\ UNCHANGED <<sr_self, sr_args>>
    /\ UnchangedExcept("result")

NextResult == ResultCalculatePrice

SpecResult == InitResult /\ [][NextResult]_vars

\* the bundles of the result with the key, and its licenses with the href
BundlesOf == {i \in 1..Len(sr_self.bundles) : sr_self.bundles[i].key = sr_args.bundle_key}

LicensesOf == {i \in 1..Len(sr_self.licenses) : sr_self.licenses[i].href = sr_args.license_href}

\* C23: SearchResult.calculate_price(license_href, bundle_key) raises
\* ValueError when no bundle of the result has the key or no license of the
\* result has the href; otherwise it returns what util.calculate_price gives
\* for the price of that bundle and the loading_percent and loading_amount
\* of that license
C23_WrapsCalculatePrice ==
    sr_out # NotCalled =>
        IF BundlesOf = {} \/ LicensesOf = {}
        THEN sr_out = Raise("ValueError")
        ELSE \E b \in BundlesOf, l \in LicensesOf :
                sr_out = Return(calculate_price(sr_self.bundles[b].price,
                                                sr_self.licenses[l].loading_percent,
                                                sr_self.licenses[l].loading_amount,
                                                0, 0, 0, 0))

\* the call priced a bundle that is there with a license that is there, and
\* a call with a bundle but without the license raised
C23_Witness ==
    /\ sr_out # NotCalled
    /\ BundlesOf # {}
    /\ \/ LicensesOf # {} /\ sr_out.kind = "return" /\ sr_out.value > 0
       \/ LicensesOf = {} /\ sr_out = Raise("ValueError")

(***************************************************************************)
(* Band                                                                    *)
(***************************************************************************)
\* common.py:77-81
Band_centre(self) == int_truediv(self.max - self.min, 2)

\* common.py:83-87
Band_width(self) == self.max - self.min

\* the longest wavelength of a band
MaxWavelength == 13

\* common.py:70-75: a band from its minimum to its maximum wavelength
InitBand ==
    /\ IdleExcept("band")
    /\ band_self \in {b \in [min : 0..MaxWavelength, max : 0..MaxWavelength] : b.min <= b.max}
    /\ band_out = NotCalled

\* band.centre()
Centre ==
    /\ band_out = NotCalled
    /\ band_out' = [kind |-> "return", of |-> "centre", value |-> Band_centre(band_self)]
    /\ UNCHANGED band_self
    /\ UnchangedExcept("band")

\* band.width()
Width ==
    /\ band_out = NotCalled
    /\ band_out' = [kind |-> "return", of |-> "width", value |-> Band_width(band_self)]
    /\ UNCHANGED band_self
    /\ UnchangedExcept("band")

NextBand == Centre \/ Width

SpecBand == InitBand /\ [][NextBand]_vars

\* C24: Band.centre() returns the centre wavelength of the band, (min + max)
\* / 2, which lies between min and max
C24_CentreIsMidpoint ==
    band_out # NotCalled /\ band_out.of = "centre" =>
        /\ FloatLE(band_out.value, int_truediv(band_self.min + band_self.max, 2))
        /\ FloatLE(int_truediv(band_self.min + band_self.max, 2), band_out.value)
        /\ FloatLE(float_of_int(band_self.min), band_out.value)
        /\ FloatLE(band_out.value, float_of_int(band_self.max))

(***************************************************************************)
(* valid() of the two search requests.  "a or b" and "a and b" give one of *)
(* their operands; a bound method is an object, and as such it is true.    *)
(***************************************************************************)
BoolVal(b) == [kind |-> "bool", v |-> b]

\* bool(x)
truth(x) == x # None /\ x # BoolVal(FALSE) /\ x # IntVal(0)

\* a or b
bool_or(a, b) == IF truth(a) THEN a ELSE b

\* a and b
bool_and(a, b) == IF truth(a) THEN b ELSE a

\* self.name, not called
BoundMethod(name) == [kind |-> "method", name |-> name]

\* archive.py:403-404 and tasking.py:202-203
valid_point_of_interest(self) == BoolVal(self.lat # None /\ self.long # None)

\* archive.py:406-407 and tasking.py:205-206
valid_area_of_interest(self) ==
    BoolVal(self.north # None /\ self.south # None /\ self.east # None /\ self.west # None)

\* archive.py:409-410
SearchRequest_valid(self) ==
    bool_and(bool_and(bool_or(valid_area_of_interest(self),
                              BoundMethod("valid_point_of_interest")),
                      BoolVal(self.start # None)),
             BoolVal(self.gsd # None))

\* tasking.py:208-209
TaskingSearchRequest_valid(self) ==
    bool_and(bool_and(bool_or(valid_area_of_interest(self), valid_point_of_interest(self)),
                      BoolVal(self.start # None)),
             BoolVal(self.gsd # None))

\* the fields that valid() reads
ValidFields == {"start", "gsd", "north", "south", "east", "west", "lat", "long"}

\* a request with each of the fields set or left None
InitValid ==
    /\ IdleExcept("valid")
    /\ v_self \in [ValidFields -> {None, IntVal(1)}]
    /\ v_out = NotCalled

\* SearchRequest.valid(request)
SearchRequestValid ==
    /\ v_out = NotCalled
    /\ v_out' = [kind |-> "return", of |-> "SearchRequest", value |-> SearchRequest_valid(v_self)]
    /\ UNCHANGED v_self
    /\ UnchangedExcept("valid")

\* TaskingSearchRequest.valid(request)
TaskingSearchRequestValid ==
    /\ v_out = NotCalled
    /\ v_out' = [kind |-> "return", of |-> "TaskingSearchRequest",
                 value |-> TaskingSearchRequest_valid(v_self)]
    /\ UNCHANGED v_self
    /\ UnchangedExcept("valid")

NextValid == SearchRequestValid \/ TaskingSearchRequestValid

SpecValid == InitValid /\ [][NextValid]_vars

\* the fields that are set
IsSet(fields) == \A f \in fields : v_self[f] # None

\* C26: SearchRequest.valid() returns True if and only if start and gsd are
\* set and either all four of north, south, east and west are set or both
\* lat and long are; and it is what TaskingSearchRequest.valid() returns for
\* the same field values
C26_ValidIffComplete ==
    v_out # NotCalled /\ v_out.of = "SearchRequest" =>
        /\ v_out.value =
             BoolVal(/\ IsSet({"start", "gsd"})
                     /\ IsSet({"north", "south", "east", "west"}) \/ IsSet({"lat", "long"}))
        /\ v_out.value = TaskingSearchRequest_valid(v_self)

(***************************************************************************)
(* ArchiveOrderRequest and TaskingOrderRequest: construction and a chain   *)
(* of builder calls, request.set_team(t).add_email(e)...: each call is     *)
(* made on what the call before it returned.                               *)
(***************************************************************************)
\* the request object itself
Self == [kind |-> "self"]

\* a CloudLevel of a tasking search result
CloudLevel(max) == [kind |-> "CloudLevel", max |-> max]

\* tasking.py:322-332
get_cloud(cloud_level) ==
    IF cloud_level.kind = "int" THEN Return(cloud_level)
    ELSE IF cloud_level.kind = "CloudLevel" THEN Return(cloud_level)
    ELSE Raise("TypeError")

\* tasking.py:362-372, for a priority that is given as a str
get_priority_key(priority) == priority

\* archive.py:468-482 and tasking.py:482-501; an ArchiveOrderRequest has no
\* priority and no cloud
OrderRequest_init(cls, cloud) ==
    LET fresh == [cls |-> cls, id |-> StrVal("id"),
                  eula |-> StrVal(get_license_href("eula")),
                  bundle_key |-> StrVal(get_bundle_key("bundle_key")),
                  priority |-> None, cloud |-> None,
                  webhooks |-> <<>>, emails |-> <<>>, team |-> None, payment |-> None]
    IN  IF cls = "ArchiveOrderRequest" THEN Return(fresh)
        ELSE IF get_cloud(cloud).kind = "raise" THEN get_cloud(cloud)
        ELSE Return([fresh EXCEPT !.priority = StrVal(get_priority_key("standard")),
                                    !.cloud = get_cloud(cloud).value])

\* archive.py:484-514 and tasking.py:503-541: the request after the call,
\* and what the call returns or raises
OrderRequest_builder(self, name, arg) ==
    CASE name = "set_bundle" ->
             [self |-> [self EXCEPT !.bundle_key = StrVal(get_bundle_key(arg))], ret |-> Return(Self)]
      [] name = "set_eula" ->
             [self |-> [self EXCEPT !.eula = StrVal(get_license_href(arg))], ret |-> Return(Self)]
      [] name = "set_priority" ->
             [self |-> [self EXCEPT !.priority = StrVal(get_priority_key(arg))], ret |-> Return(Self)]
      [] name = "set_cloud" ->
             IF get_cloud(arg).kind = "raise" THEN [self |-> self, ret |-> get_cloud(arg)]
             ELSE [self |-> [self EXCEPT !.cloud = get_cloud(arg).value], ret |-> Return(Self)]
      [] name = "add_webhook" ->
             [self |-> [self EXCEPT !.webhooks = Append(@, arg)], ret |-> Return(Self)]
      [] name = "set_webhooks" ->
             [self |-> [self EXCEPT !.webhooks = arg], ret |-> Return(Self)]
      [] name = "add_email" ->
             [self |-> [self EXCEPT !.emails = Append(@, arg)], ret |-> Return(Self)]
      [] name = "set_emails" ->
             [self |-> [self EXCEPT !.emails = arg], ret |-> Return(Self)]
      [] name = "set_team" ->
             [self |-> [self EXCEPT !.team = StrVal(arg)], ret |-> Return(Self)]
      [] name = "set_payment" ->
             [self |-> [self EXCEPT !.payment = StrVal(arg)], ret |-> Return(StrVal(arg))]

\* tasking.py:545-556
TaskingOrderRequest_dict(self) ==
    remove_none([id          |-> self.id,
                 eula        |-> self.eula,
                 bundleKey   |-> self.bundle_key,
                 cloud       |-> self.cloud,
                 priorityKey |-> self.priority,
                 webhooks    |-> ListVal(self.webhooks),
                 emails      |-> ListVal(self.emails),
                 team        |-> self.team,
                 payment     |-> IF self.payment = StrVal("") THEN None ELSE self.payment])

\* the builder methods of a class, each with the arguments it is called with
Builders(cls) ==
    [set_bundle |-> {"b2"}, set_eula |-> {"e2"}, add_webhook |-> {"w1"},
     set_webhooks |-> {<<"w2">>}, add_email |-> {"e1"}, set_emails |-> {<<>>},
     set_team |-> {"t1"}, set_payment |-> {"p1"}]
      @@ (IF cls = "TaskingOrderRequest"
          THEN [set_priority |-> {"urgent"},
                set_cloud |-> {IntVal(5), CloudLevel(30), StrVal("low")}]
          ELSE <<>>)

\* the most builder calls of a chain
MaxChain == 2

InitBuilder ==
    /\ IdleExcept("builder")
    /\ b_self = None
    /\ b_ret = NotCalled
    /\ b_last = ""
    /\ b_calls = 0

\* ArchiveOrderRequest(id, license, bundle) and TaskingOrderRequest(id,
\* license, bundle, priority, cloud)
ConstructOrderRequest(cls, cloud) ==
    /\ b_self = None /\ b_ret = NotCalled
    /\ LET made == OrderRequest_init(cls, cloud)
       IN  IF made.kind = "raise"
           THEN b_ret' = made /\ UNCHANGED b_self
           ELSE b_self' = made.value /\ b_ret' = Return(Self)
    /\ b_last' = "__init__"
    /\ UNCHANGED b_calls
    /\ UnchangedExcept("builder")

\* the next call of the chain, made on the request
Build(name, arg) ==
    /\ b_self # None /\ b_ret = Return(Self)
    /\ b_calls < MaxChain
    /\ name \in DOMAIN Builders(b_self.cls)
    /\ arg \in Builders(b_self.cls)[name]
    /\ b_self' = OrderRequest_builder(b_self, name, arg).self
    /\ b_ret' = OrderRequest_builder(b_self, name, arg).ret
    /\ b_last' = name
    /\ b_calls' = b_calls + 1
    /\ UnchangedExcept("builder")

\* the next call of the chain, made on a str that the call before returned:
\* a str has none of the methods
BuildOnStr(name) ==
    /\ b_self # None /\ b_ret.kind = "return" /\ b_ret.value # Self
    /\ b_calls < MaxChain
    /\ name \in DOMAIN Builders(b_self.cls)
    /\ b_ret' = Raise("AttributeError")
    /\ b_last' = name
    /\ b_calls' = b_calls + 1
    /\ UNCHANGED b_self
    /\ UnchangedExcept("builder")

NextBuilder ==
    \/ \E cls \in {"ArchiveOrderRequest", "TaskingOrderRequest"},
          cloud \in {IntVal(10), CloudLevel(30), StrVal("low")} :
          ConstructOrderRequest(cls, cloud)
    \/ \E name \in DOMAIN Builders("TaskingOrderRequest") :
          \/ \E arg \in Builders("TaskingOrderRequest")[name] : Build(name, arg)
          \/ BuildOnStr(name)

SpecBuilder == InitBuilder /\ [][NextBuilder]_vars

C27_BuildersReturnSelf ==
    b_calls > 0 =>
        /\ b_ret # Raise("AttributeError")
        /\ b_ret.kind = "return" => b_ret.value = Self

(***************************************************************************)
(* CollectionSearchRequest.add_id and add_query, and                       *)
(* CollectionUpdateRequest.add_keyword.  The lists and the dict are        *)
(* optional arguments of __init__, and None when they are left out.        *)
(***************************************************************************)
\* collections.py:785-795
CollectionUpdateRequest_init(collection, title, description, keywords) ==
    [cls |-> "CollectionUpdateRequest", collection_id |-> get_collection_id(collection),
     title |-> title, description |-> description, keywords |-> keywords]

\* collections.py:813-818
CollectionUpdateRequest_dict(self) ==
    remove_none([title |-> self.title, description |-> self.description,
                 keywords |-> self.keywords])

\* list.append(item) on the value of an attribute: None has no append
attr_append(self, attribute, item) ==
    IF self[attribute] = None THEN [self |-> self, ret |-> Raise("AttributeError")]
    ELSE [self |-> [self EXCEPT ![attribute] = ListVal(Append(@.items, item))],
          ret |-> Return(Self)]

\* collections.py:630-632
add_id(self, id) == attr_append(self, "ids", id)

\* collections.py:810-812
add_keyword(self, keyword) == attr_append(self, "keywords", keyword)

\* collections.py:656-657: None supports no item assignment, and the method
\* has no return statement
add_query(self, field, query) ==
    IF self.queries = None THEN [self |-> self, ret |-> Raise("TypeError")]
    ELSE [self |-> [self EXCEPT !.queries =
                       DictVal([k \in DOMAIN @.items \cup {field} |->
                                   IF k = field THEN query ELSE @.items[k]])],
          ret |-> Return(None)]

\* obj.dict()
adder_dict(self) ==
    IF self.cls = "CollectionSearchRequest" THEN CollectionSearchRequest_dict(self)
    ELSE CollectionUpdateRequest_dict(self)

\* the most calls on a request
MaxAdds == 2

\* the two queries of the calls
TestQueries == {[eq |-> StrVal("x"), like |-> None], [eq |-> None, like |-> StrVal("y")]}

\* a request of either class, constructed without the optional list and dict
\* or with them
InitAdder ==
    /\ IdleExcept("adder")
    /\ ad_given \in [cls : {"CollectionSearchRequest"},
                     ids : {None, ListVal(<<>>), ListVal(<<"i0">>)},
                     queries : {None, DictVal(<<>>)}, keywords : {None}]
                  \cup [cls : {"CollectionUpdateRequest"}, ids : {None}, queries : {None},
                        keywords : {None, ListVal(<<>>), ListVal(<<"k0">>)}]
    /\ ad_self = IF ad_given.cls = "CollectionSearchRequest"
                 THEN CollectionRequest_init("CollectionSearchRequest", "collection",
                                             IntVal(0), IntVal(100), None, None, None, None,
                                             ad_given.ids, None, ad_given.queries)
                 ELSE CollectionUpdateRequest_init("collection", None, None, ad_given.keywords)
    /\ ad_out = NotCalled
    /\ ad_calls = 0

\* what a call leaves behind
AdderCalled(name, arg, result) ==
    /\ ad_calls < MaxAdds
    /\ ad_self' = result.self
    /\ ad_out' = [of |-> name, arg |-> arg, ret |-> result.ret]
    /\ ad_calls' = ad_calls + 1
    /\ UNCHANGED ad_given
    /\ UnchangedExcept("adder")

\* request.add_id(id)
AddId(id) ==
    /\ ad_self.cls = "CollectionSearchRequest"
    /\ AdderCalled("add_id", id, add_id(ad_self, id))

\* request.add_query(field, query)
AddQuery(field, query) ==
    /\ ad_self.cls = "CollectionSearchRequest"
    /\ AdderCalled("add_query", <<field, query>>, add_query(ad_self, field, query))

\* request.add_keyword(keyword)
AddKeyword(keyword) ==
    /\ ad_self.cls = "CollectionUpdateRequest"
    /\ AdderCalled("add_keyword", keyword, add_keyword(ad_self, keyword))

NextAdder ==
    \/ \E id \in {"i1", "i2"} : AddId(id)
    \/ \E field \in {"gsd", "cloud_cover"}, query \in TestQueries : AddQuery(field, query)
    \/ \E keyword \in {"k1", "k2"} : AddKeyword(keyword)

SpecAdder == InitAdder /\ [][NextAdder]_vars

\* the latest call did not raise, and what it added is in dict() under key
Added(key) ==
    /\ ad_out.ret.kind = "return"
    /\ key \in DOMAIN adder_dict(ad_self)
    /\ IF key = "queries"
       THEN /\ QueryField_value[ad_out.arg[1]] \in DOMAIN adder_dict(ad_self)[key].items
            /\ adder_dict(ad_self)[key].items[QueryField_value[ad_out.arg[1]]]
                 = StringQuery_dict(ad_out.arg[2])
       ELSE \E i \in 1..Len(adder_dict(ad_self)[key].items) :
               adder_dict(ad_self)[key].items[i] = ad_out.arg

\* C30: on a request that was constructed with its required arguments
\* alone, add_id, add_query and add_keyword do not raise, and what they add
\* is under "ids", "queries" and "keywords" of dict() afterwards
C30_AddsOnDefaults ==
    /\ ad_out # NotCalled
    /\ ad_given.ids = None /\ ad_given.queries = None /\ ad_given.keywords = None
    => Added(CASE ad_out.of = "add_id" -> "ids"
               [] ad_out.of = "add_query" -> "queries"
               [] ad_out.of = "add_keyword" -> "keywords")

\* C29: request objects are isolated from each other: a construction or an
\* add_webhook or add_email call on one request leaves dict() of every
\* other request as it was
C29_OthersUnchanged ==
    [][\A r \in 1..Len(orders) :
           order_log'[r] = order_log[r]
               => ArchiveOrderRequest_dict(orders[r])' = ArchiveOrderRequest_dict(orders[r])]_vars

====
